---- MODULE Spec2Model ----
(***************************************************************************)
(* Endowment reference-data store (src/app.py): the SQLite schema, the     *)
(* synthetic seeder, the spreadsheet importer and the command line that    *)
(* drives them.                                                            *)
(*                                                                         *)
(* Representation                                                          *)
(*  - text is a sequence of one-character strings, so that strip(),        *)
(*    endswith('%'), float() and isoformat() are computed, not assumed;    *)
(*  - a REAL is a fixed-point integer in units of 1/Scale (float rounding  *)
(*    is not modelled; quotients are truncated to that grid);              *)
(*  - a table is a set of rows, a row a record of its columns; uniqueness  *)
(*    of keys is therefore something the insert operators must establish;  *)
(*  - a store is a record of the nine tables plus whether the file exists. *)
(***************************************************************************)
EXTENDS Integers, Sequences, FiniteSets, TLC

VARIABLES
    db,      \* db[p]: the store in the file p
    today,   \* datetime.date.today()
    hist,    \* the commands run so far, oldest first
    before,  \* the store the last command was pointed at, as it found it
    cell,    \* the cell last handed to parse_decimal on its own
    parsed,  \* what parse_decimal returned for cell
    printed, \* the lines the last command printed
    months,  \* the last call of _month_ends on its own: arguments and dates yielded
    run      \* the command in progress, step by step: where it is, its connections

vars == <<db, today, hist, before, cell, parsed, printed, months, run>>

\* ------------------------------------------------------------------ bounds
\* Commands issued in one run (all stores together).
MaxOps == 2

\* Longest series, in months, a seed command is asked for.
MaxMonths == 14

\* ------------------------------------------------------ numbers and text
\* One unit of a REAL is 1/Scale.
Scale == 10 * 100

Max(S) == CHOOSE x \in S : \A y \in S : y <= x

Abs(x) == IF x < 0 THEN -x ELSE x

\* Python's a / b on the fixed-point grid, truncated towards zero.
DivTrunc(a, b) == IF a >= 0 THEN a \div b ELSE -((-a) \div b)

DigitChars == <<"0", "1", "2", "3", "4", "5", "6", "7", "8", "9">>

DigitChar(n) == DigitChars[n + 1]

IsDigit(c) == \E i \in 1..10 : DigitChars[i] = c

DigitVal(c) == (CHOOSE i \in 1..10 : DigitChars[i] = c) - 1

\* str.strip(): leading and trailing blanks removed.
RECURSIVE LStrip(_)
LStrip(s) == IF s # <<>> /\ Head(s) = " " THEN LStrip(Tail(s)) ELSE s

RECURSIVE RStrip(_)
RStrip(s) ==
    IF s # <<>> /\ s[Len(s)] = " " THEN RStrip(SubSeq(s, 1, Len(s) - 1)) ELSE s

Strip(s) == RStrip(LStrip(s))

EndsWithPercent(s) == s # <<>> /\ s[Len(s)] = "%"

\* Decimal digits of a natural number, without padding.
RECURSIVE NatDigits(_)
NatDigits(n) ==
    IF n < 10 THEN <<DigitChar(n)>>
    ELSE NatDigits(n \div 10) \o <<DigitChar(n % 10)>>

\* f"{n:0{w}d}": zero padded to width w.
RECURSIVE ZeroPad(_, _)
ZeroPad(s, w) == IF Len(s) >= w THEN s ELSE ZeroPad(<<"0">> \o s, w)

\* --------------------------------------------------------------- calendar
\* The Julian rule: every fourth year.
IsLeap_Julian(y) == y % 4 = 0

\* calendar.isleap(y)
IsLeap(y) == (y % 4 = 0 /\ y % 100 # 0) \/ y % 400 = 0

\* calendar.monthrange(y, m)[1]
DaysInMonth(y, m) ==
    IF m = 2 THEN (IF IsLeap(y) THEN 29 ELSE 28)
    ELSE IF m \in {4, 6, 9, 11} THEN 30 ELSE 31

\* datetime.date.isoformat(): YYYY-MM-DD
IsoFormat(d) ==
    ZeroPad(NatDigits(d[1]), 4) \o <<"-">> \o ZeroPad(NatDigits(d[2]), 2)
        \o <<"-">> \o ZeroPad(NatDigits(d[3]), 2)

\* (y1, m1) <= (y2, m2), Python's tuple order.
YmLeq(y1, m1, y2, m2) == y1 < y2 \/ (y1 = y2 /\ m1 <= m2)

\* _month_ends(start, end): the month-end of every month from start's month
\* to end's month, in the order yielded.
RECURSIVE MonthEndsFrom(_, _, _)
MonthEndsFrom(y, m, end) ==
    IF ~YmLeq(y, m, end[1], end[2]) THEN <<>>
    ELSE <<(<<y, m, DaysInMonth(y, m)>>)>>
            \o (IF m = 12 THEN MonthEndsFrom(y + 1, 1, end)
                ELSE MonthEndsFrom(y, m + 1, end))

_month_ends(start, end) == MonthEndsFrom(start[1], start[2], end)

\* ------------------------------------------------------------ fixed text
Txt_US_Equity == <<"U", "S", " ", "E", "q", "u", "i", "t", "y">>

Txt_International_Equity ==
    <<"I", "n", "t", "e", "r", "n", "a", "t", "i", "o", "n", "a", "l", " ",
      "E", "q", "u", "i", "t", "y">>

Txt_Fixed_Income == <<"F", "i", "x", "e", "d", " ", "I", "n", "c", "o", "m", "e">>

Txt_Real_Assets == <<"R", "e", "a", "l", " ", "A", "s", "s", "e", "t", "s">>

Txt_Private_Equity ==
    <<"P", "r", "i", "v", "a", "t", "e", " ", "E", "q", "u", "i", "t", "y">>

Txt_Cash == <<"C", "a", "s", "h">>

Txt_SP_500 == <<"S", "&", "P", " ", "5", "0", "0">>

Txt_MSCI_ACWI_ex_US ==
    <<"M", "S", "C", "I", " ", "A", "C", "W", "I", " ", "e", "x", " ", "U", "S">>

Txt_Bloomberg_US_Agg ==
    <<"B", "l", "o", "o", "m", "b", "e", "r", "g", " ", "U", "S", " ", "A", "g", "g">>

Txt_NAREIT == <<"N", "A", "R", "E", "I", "T">>

Txt_Cambridge_PE ==
    <<"C", "a", "m", "b", "r", "i", "d", "g", "e", " ", "P", "E", " ",
      "(", "p", "r", "o", "x", "y", ")">>

Txt_T_Bill_3M == <<"3", "M", " ", "T", "-", "B", "i", "l", "l">>

Txt_GSPC == <<"^", "G", "S", "P", "C">>

Txt_gift == <<"g", "i", "f", "t">>

Txt_default == <<"d", "e", "f", "a", "u", "l", "t">>

Txt_nan == <<"n", "a", "n">>

Txt_schema_version ==
    <<"s", "c", "h", "e", "m", "a", "_", "v", "e", "r", "s", "i", "o", "n">>

\* SQL NULL in a TEXT column (no text is this one-element sequence).
NullText == <<"NULL">>

\* SQL NULL in an INTEGER reference column (rowids start at 1).
NullId == 0

SCHEMA_VERSION == 1

\* ------------------------------------------------------------- the store
\* The file before it is created: no tables, no rows.
NoStore ==
    [exists |-> FALSE, meta |-> {}, asset_classes |-> {}, benchmarks |-> {},
     funds |-> {}, returns |-> {}, contributions |-> {},
     target_allocations |-> {}, spending_policy |-> {}, inflation |-> {}]

\* The key columns of each table: its PRIMARY KEY and its UNIQUE constraints.
UniqueKeys ==
    [meta |-> {{"key"}},
     asset_classes |-> {{"asset_class_id"}, {"name"}},
     benchmarks |-> {{"benchmark_id"}, {"name"}},
     funds |-> {{"fund_id"}, {"name"}},
     returns |-> {{"asof", "fund_id"}},
     contributions |-> {{"contribution_id"}},
     target_allocations |-> {{"allocation_id"}, {"asof", "asset_class_id"}},
     spending_policy |-> {{"policy_id"}, {"name"}},
     inflation |-> {{"asof"}}]

\* The INTEGER PRIMARY KEY (rowid alias) of the tables that have one.
IdCol ==
    [asset_classes |-> "asset_class_id", benchmarks |-> "benchmark_id",
     funds |-> "fund_id", contributions |-> "contribution_id",
     target_allocations |-> "allocation_id", spending_policy |-> "policy_id"]

\* The foreign keys as a connection without PRAGMA foreign_keys = ON
\* treats them: declared, not enforced.
ForeignKeysOk_Off(s, table, row) == TRUE

\* FOREIGN KEY(col) REFERENCES table(col), enforced since _connect turns
\* foreign_keys on; a NULL reference satisfies the constraint.
ForeignKeysOk(s, table, row) ==
    CASE table = "funds" ->
            /\ \E a \in s.asset_classes : a.asset_class_id = row.asset_class_id
            /\ \/ row.benchmark_id = NullId
               \/ \E b \in s.benchmarks : b.benchmark_id = row.benchmark_id
      [] table = "returns" -> \E f \in s.funds : f.fund_id = row.fund_id
      [] table = "target_allocations" ->
            \E a \in s.asset_classes : a.asset_class_id = row.asset_class_id
      [] OTHER -> TRUE

\* The rows of t that collide with row on some key.
Conflicts(t, row, keys) ==
    {r \in t : \E k \in keys : \A c \in k : r[c] = row[c]}

\* The rowid SQLite gives a row inserted without one: one past the largest.
NextRowid(t, idcol) == IF t = {} THEN 1 ELSE Max({r[idcol] : r \in t}) + 1

\* A transaction in progress: the store as the connection sees it, and
\* whether a statement has raised.
Tx(s) == [s |-> s, err |-> FALSE]

Raise(tx) == [tx EXCEPT !.err = TRUE]

\* SQL NULL in a REAL column, which is also what sqlite3 binds a float NaN
\* to (no amount or index of the model is this low).
NullReal == -2147483647

\* NOT NULL on the REAL columns a caller can hand a NULL to.
NotNullOk(table, row) ==
    CASE table = "contributions" -> row.amount # NullReal
      [] table = "inflation" -> row.cpi_index # NullReal
      [] OTHER -> TRUE

\* INSERT INTO table ...: a NULL in a NOT NULL column, a key collision or a
\* dangling reference raises.
Insert(tx, table, row) ==
    IF tx.err THEN tx
    ELSE IF ~NotNullOk(table, row) THEN Raise(tx)
    ELSE IF Conflicts(tx.s[table], row, UniqueKeys[table]) # {} THEN Raise(tx)
    ELSE IF ~ForeignKeysOk(tx.s, table, row) THEN Raise(tx)
    ELSE [tx EXCEPT !.s[table] = @ \cup {row}]

\* INSERT OR IGNORE that overwrites: the rows that collide give way.
InsertOrIgnore_Overwrite(tx, table, row) ==
    IF tx.err THEN tx
    ELSE IF ~NotNullOk(table, row) THEN tx
    ELSE IF ~ForeignKeysOk(tx.s, table, row) THEN Raise(tx)
    ELSE [tx EXCEPT !.s[table] =
            (@ \ Conflicts(@, row, UniqueKeys[table])) \cup {row}]

\* INSERT OR IGNORE INTO table ...: a row that collides is skipped.
InsertOrIgnore(tx, table, row) ==
    IF tx.err THEN tx
    ELSE IF ~NotNullOk(table, row) THEN tx
    ELSE IF Conflicts(tx.s[table], row, UniqueKeys[table]) # {} THEN tx
    ELSE IF ~ForeignKeysOk(tx.s, table, row) THEN Raise(tx)
    ELSE [tx EXCEPT !.s[table] = @ \cup {row}]

\* INSERT OR REPLACE that appends: the rows that collide are left in place.
InsertOrReplace_Append(tx, table, row) ==
    IF tx.err THEN tx
    ELSE IF ~NotNullOk(table, row) THEN Raise(tx)
    ELSE IF ~ForeignKeysOk(tx.s, table, row) THEN Raise(tx)
    ELSE [tx EXCEPT !.s[table] = @ \cup {row}]

\* INSERT OR REPLACE INTO table ...: the rows that collide are deleted
\* first; a NULL in a NOT NULL column without a default still raises.
InsertOrReplace(tx, table, row) ==
    IF tx.err THEN tx
    ELSE IF ~NotNullOk(table, row) THEN Raise(tx)
    ELSE IF ~ForeignKeysOk(tx.s, table, row) THEN Raise(tx)
    ELSE [tx EXCEPT !.s[table] =
            (@ \ Conflicts(@, row, UniqueKeys[table])) \cup {row}]

\* row with its rowid column filled in as SQLite would for this table.
WithRowid(tx, table, row) ==
    [c \in DOMAIN row \cup {IdCol[table]} |->
        IF c = IdCol[table] THEN NextRowid(tx.s[table], IdCol[table]) ELSE row[c]]

\* cur.execute(statement, row), by the statement's conflict clause.
Execute(stmt, tx, table, row) ==
    CASE stmt = "INSERT" -> Insert(tx, table, row)
      [] stmt = "INSERT OR IGNORE" -> InsertOrIgnore(tx, table, row)
      [] stmt = "INSERT OR REPLACE" -> InsertOrReplace(tx, table, row)

\* cur.executemany(statement, rows): the statement once per row, in order,
\* up to the first row that raises; auto says the rowid is left to SQLite.
RECURSIVE ExecMany(_, _, _, _, _)
ExecMany(stmt, tx, table, rows, auto) ==
    IF rows = <<>> THEN tx
    ELSE LET row == IF auto THEN WithRowid(tx, table, Head(rows)) ELSE Head(rows)
             t == Execute(stmt, tx, table, row)
         IN  IF t.err THEN t ELSE ExecMany(stmt, t, table, Tail(rows), auto)

\* ensure_schema that drops and recreates the tables.
ensure_schema_Recreate(s) ==
    [NoStore EXCEPT !.exists = TRUE,
                    !.meta = {[key |-> Txt_schema_version,
                               value |-> NatDigits(SCHEMA_VERSION)]}]

\* ensure_schema: CREATE TABLE IF NOT EXISTS for the nine tables (rows are
\* kept), INSERT OR REPLACE of the schema_version row, commit.
ensure_schema(s) ==
    [s EXCEPT !.exists = TRUE,
              !.meta = (@ \ Conflicts(@, [key |-> Txt_schema_version], {{"key"}}))
                          \cup {[key |-> Txt_schema_version,
                                 value |-> NatDigits(SCHEMA_VERSION)]}]

\* ------------------------------------------------------ the random source
\* random.Random is a deterministic generator: what it returns is a function
\* of its seed and of how many values were drawn before.  The standard
\* normal deviates of a stream are taken from this table; its extremes are
\* far enough out for the clip of a monthly return to act.
ZTable == <<0, 1, -1, 2, 5, -5, -2>>

\* A generator shared by the whole process: it resumes where earlier
\* commands left it instead of starting its stream afresh.
Random_Shared(rng_seed) == [seed |-> rng_seed, n |-> Len(hist)]

\* Random(rng_seed): a generator of its own, at the start of its stream.
Random(rng_seed) == [seed |-> rng_seed, n |-> 0]

\* The standard normal deviate the generator yields next.
Deviate(rng) == ZTable[((rng.seed + rng.n * (2 * rng.seed + 1)) % Len(ZTable)) + 1]

\* rng.gauss(mu, sigma): the value, and the generator one draw further.
gauss(rng, mu, sigma) ==
    [v |-> mu + Deviate(rng) * sigma, rng |-> [rng EXCEPT !.n = @ + 1]]

\* ----------------------------------------------------------------- seeding
\* 12.0 ** 0.5, in units of 1/Scale.
Sqrt12 == 3464

\* monthly_params(mu, sigma) == (mu / 12.0, sigma / 12.0 ** 0.5)
monthly_params(mu, sigma) == <<DivTrunc(mu, 12), DivTrunc(sigma * Scale, Sqrt12)>>

\* The clip of a generated monthly return: 0.35.
ClipBound == 350

\* min(x, 0.35): the upper bound alone.
Clip_UpperOnly(x) == IF x < ClipBound THEN x ELSE ClipBound

\* max(min(x, 0.35), -0.35)
Clip(x) ==
    LET lo == IF x < ClipBound THEN x ELSE ClipBound
    IN  IF lo > -ClipBound THEN lo ELSE -ClipBound

assets ==
    <<Txt_US_Equity, Txt_International_Equity, Txt_Fixed_Income,
      Txt_Real_Assets, Txt_Private_Equity, Txt_Cash>>

benchmarks ==
    <<[name |-> Txt_SP_500, ticker |-> Txt_GSPC],
      [name |-> Txt_MSCI_ACWI_ex_US, ticker |-> NullText],
      [name |-> Txt_Bloomberg_US_Agg, ticker |-> NullText],
      [name |-> Txt_NAREIT, ticker |-> NullText],
      [name |-> Txt_Cambridge_PE, ticker |-> NullText],
      [name |-> Txt_T_Bill_3M, ticker |-> NullText]>>

\* The funds with Cash measured against the S&P 500 as US Equity is.
funds_SharedBenchmark ==
    <<[name |-> Txt_US_Equity, ac |-> Txt_US_Equity, bm |-> Txt_SP_500],
      [name |-> Txt_International_Equity, ac |-> Txt_International_Equity,
       bm |-> Txt_MSCI_ACWI_ex_US],
      [name |-> Txt_Fixed_Income, ac |-> Txt_Fixed_Income, bm |-> Txt_Bloomberg_US_Agg],
      [name |-> Txt_Real_Assets, ac |-> Txt_Real_Assets, bm |-> Txt_NAREIT],
      [name |-> Txt_Private_Equity, ac |-> Txt_Private_Equity, bm |-> Txt_Cambridge_PE],
      [name |-> Txt_Cash, ac |-> Txt_Cash, bm |-> Txt_SP_500]>>

\* (fund, its asset class, its benchmark), by name.
funds ==
    <<[name |-> Txt_US_Equity, ac |-> Txt_US_Equity, bm |-> Txt_SP_500],
      [name |-> Txt_International_Equity, ac |-> Txt_International_Equity,
       bm |-> Txt_MSCI_ACWI_ex_US],
      [name |-> Txt_Fixed_Income, ac |-> Txt_Fixed_Income, bm |-> Txt_Bloomberg_US_Agg],
      [name |-> Txt_Real_Assets, ac |-> Txt_Real_Assets, bm |-> Txt_NAREIT],
      [name |-> Txt_Private_Equity, ac |-> Txt_Private_Equity, bm |-> Txt_Cambridge_PE],
      [name |-> Txt_Cash, ac |-> Txt_Cash, bm |-> Txt_T_Bill_3M]>>

\* "2019-06-30"
alloc_date == IsoFormat(<<2019, 6, 30>>)

\* Target weights with Cash at 0.10: they add up to 1.05.
allocations_CashDoubled ==
    <<[name |-> Txt_US_Equity, weight |-> 300],
      [name |-> Txt_International_Equity, weight |-> 200],
      [name |-> Txt_Fixed_Income, weight |-> 200],
      [name |-> Txt_Real_Assets, weight |-> 100],
      [name |-> Txt_Private_Equity, weight |-> 150],
      [name |-> Txt_Cash, weight |-> 100]>>

\* Target weights, in dict order.
allocations ==
    <<[name |-> Txt_US_Equity, weight |-> 300],
      [name |-> Txt_International_Equity, weight |-> 200],
      [name |-> Txt_Fixed_Income, weight |-> 200],
      [name |-> Txt_Real_Assets, weight |-> 100],
      [name |-> Txt_Private_Equity, weight |-> 150],
      [name |-> Txt_Cash, weight |-> 50]>>

\* Annualized (mu, sigma) per fund, in dict order.
assumptions ==
    <<[name |-> Txt_US_Equity, mu |-> 70, sigma |-> 150],
      [name |-> Txt_International_Equity, mu |-> 65, sigma |-> 160],
      [name |-> Txt_Fixed_Income, mu |-> 30, sigma |-> 50],
      [name |-> Txt_Real_Assets, mu |-> 50, sigma |-> 100],
      [name |-> Txt_Private_Equity, mu |-> 90, sigma |-> 250],
      [name |-> Txt_Cash, mu |-> 20, sigma |-> 10]>>

\* {name: id for id, name in SELECT id, name FROM table}
IdByName(t, idcol) ==
    [n \in {r.name : r \in t} |-> (CHOOSE r \in t : r.name = n)[idcol]]

\* No end year given on the command line (end_year=None).
NoYear == 0

\* The last day of the month `now` is in: the running month counted in.
SeedEnd_ThisMonth(end_year, now) == <<now[1], now[2], DaysInMonth(now[1], now[2])>>

\* The last day of the last full month before the day `now`:
\* the `end` that seed_sample_data computes (whatever end_year is).
SeedEnd(end_year, now) ==
    LET end_month == IF now[2] - 1 # 0 THEN now[2] - 1 ELSE 12
        end_year_adjusted == IF now[2] > 1 THEN now[1] ELSE now[1] - 1
    IN  <<end_year_adjusted, end_month, DaysInMonth(end_year_adjusted, end_month)>>

\* The inner loop of the returns loop: one draw per fund of `assumptions`,
\* from index i on, for the month-end asof.
RECURSIVE FundDraws(_, _, _, _)
FundDraws(asof, i, rng, fund_id_by_name) ==
    IF i > Len(assumptions) THEN [rows |-> <<>>, rng |-> rng]
    ELSE LET a == assumptions[i]
             m == monthly_params(a.mu, a.sigma)
             g == gauss(rng, m[1], m[2])
             rest == FundDraws(asof, i + 1, g.rng, fund_id_by_name)
         IN  [rows |-> <<[asof |-> asof, fund_id |-> fund_id_by_name[a.name],
                         monthly_return |-> Clip(g.v)]>> \o rest.rows,
              rng |-> rest.rng]

\* The returns loop: every month-end in order, the funds within each.
RECURSIVE ReturnRows(_, _, _)
ReturnRows(dates, rng, fund_id_by_name) ==
    IF dates = <<>> THEN [rows |-> <<>>, rng |-> rng]
    ELSE LET m == FundDraws(IsoFormat(Head(dates)), 1, rng, fund_id_by_name)
             rest == ReturnRows(Tail(dates), m.rng, fund_id_by_name)
         IN  [rows |-> m.rows \o rest.rows, rng |-> rest.rng]

\* The contributions loop with range(max(start.year, 2010), end.year):
\* the last year is left out.
RECURSIVE ContribRows_LastYearOut(_, _)
ContribRows_LastYearOut(y, last) ==
    IF y >= last THEN <<>>
    ELSE <<[asof |-> ZeroPad(NatDigits(y), 4) \o <<"-", "0", "7", "-", "0", "1">>,
            amount |-> 2000000 * Scale, source |-> Txt_gift]>>
            \o ContribRows_LastYearOut(y + 1, last)

\* The contributions loop: range(max(start.year, 2010), end.year + 1).
RECURSIVE ContribRows(_, _)
ContribRows(y, last) ==
    IF y > last THEN <<>>
    ELSE <<[asof |-> ZeroPad(NatDigits(y), 4) \o <<"-", "0", "7", "-", "0", "1">>,
            amount |-> 2000000 * Scale, source |-> Txt_gift]>>
            \o ContribRows(y + 1, last)

\* The inflation loop: the index compounds one draw per month-end.
RECURSIVE CpiRows(_, _, _)
CpiRows(dates, cpi, rng) ==
    IF dates = <<>> THEN <<>>
    ELSE LET g == gauss(rng, DivTrunc(25, 12), DivTrunc(10 * Scale, Sqrt12))
             grown == DivTrunc(cpi * (Scale + g.v), Scale)
         IN  <<[asof |-> IsoFormat(Head(dates)), cpi_index |-> grown]>>
                \o CpiRows(Tail(dates), grown, g.rng)

\* The calls of rng.gauss within one seed_sample_data, in the order they are
\* made, each with the month-end it is made for: one per returns row in the
\* order of the returns loop, then one per month-end in the inflation loop.
SeedDraws(dates, rng_seed, fund_id_by_name) ==
    LET drawn == ReturnRows(dates, Random(rng_seed), fund_id_by_name)
    IN  [k \in 1..Len(drawn.rows) |->
            [asof |-> drawn.rows[k].asof, series |-> "returns",
             fund_id |-> drawn.rows[k].fund_id]]
        \o [i \in 1..Len(dates) |->
            [asof |-> IsoFormat(dates[i]), series |-> "inflation",
             fund_id |-> NullId]]

\* seed_sample_data(conn, start_year, end_year, rng_seed) run on the day
\* `now` against the store s: the transaction as it stands at conn.commit().
seed_sample_data(s, start_year, end_year, rng_seed, now) ==
    LET rng == Random(rng_seed)
        start == <<start_year, 1, 1>>
        end == SeedEnd(end_year, now)
        t1 == ExecMany("INSERT OR IGNORE", Tx(s), "asset_classes",
                       [i \in 1..Len(assets) |-> [name |-> assets[i]]], TRUE)
        t2 == ExecMany("INSERT OR IGNORE", t1, "benchmarks", benchmarks, TRUE)
        ac_id_by_name == IdByName(t2.s.asset_classes, "asset_class_id")
        bm_id_by_name == IdByName(t2.s.benchmarks, "benchmark_id")
        t3 == ExecMany("INSERT OR IGNORE", t2, "funds",
                       [i \in 1..Len(funds) |->
                           [name |-> funds[i].name,
                            asset_class_id |-> ac_id_by_name[funds[i].ac],
                            benchmark_id |-> bm_id_by_name[funds[i].bm]]], TRUE)
        t4 == ExecMany("INSERT OR IGNORE", t3, "target_allocations",
                       [i \in 1..Len(allocations) |->
                           [asof |-> alloc_date,
                            asset_class_id |-> ac_id_by_name[allocations[i].name],
                            weight |-> allocations[i].weight]], TRUE)
        t5 == InsertOrIgnore(t4, "spending_policy",
                  WithRowid(t4, "spending_policy",
                      [name |-> Txt_default, rate |-> 45, smoothing_years |-> 3]))
        fund_id_by_name == IdByName(t5.s.funds, "fund_id")
        dates == _month_ends(start, end)
        drawn == ReturnRows(dates, rng, fund_id_by_name)
        t6 == ExecMany("INSERT OR IGNORE", t5, "returns", drawn.rows, FALSE)
        y0 == IF start[1] > 2010 THEN start[1] ELSE 2010
        t7 == ExecMany("INSERT OR IGNORE", t6, "contributions",
                       ContribRows(y0, end[1]), TRUE)
        t8 == ExecMany("INSERT OR REPLACE", t7, "inflation",
                       CpiRows(dates, 100 * Scale, drawn.rng), FALSE)
    IN  t8

\* ------------------------------------------------- workbook cells, Python
\* A cell of a sheet as pandas hands it over, and the Python value made of
\* it: NaN (an empty cell), a str, a float, a Timestamp, or None.
NaN == [t |-> "nan", s |-> <<>>, n |-> 0, d |-> <<0, 0, 0>>]

None == [t |-> "none", s |-> <<>>, n |-> 0, d |-> <<0, 0, 0>>]

Str(s) == [t |-> "str", s |-> s, n |-> 0, d |-> <<0, 0, 0>>]

Num(n) == [t |-> "num", s |-> <<>>, n |-> n, d |-> <<0, 0, 0>>]

Timestamp(d) == [t |-> "date", s |-> <<>>, n |-> 0, d |-> d]

\* r.get(col, default)
Get(r, col, default) == IF col \in DOMAIN r THEN r[col] ELSE default

\* pd.isna(x)
IsNa(x) == x.t \in {"nan", "none"}

\* x == ''
IsEmptyStr(x) == x.t = "str" /\ x.s = <<>>

\* bool(x): None, '' and 0.0 are false; NaN is not.
Truthy(x) ==
    CASE x.t = "none" -> FALSE
      [] x.t = "str" -> x.s # <<>>
      [] x.t = "num" -> x.n # 0
      [] OTHER -> TRUE

\* x or y
Or(x, y) == IF Truthy(x) THEN x ELSE y

\* The value of a string of digits.
RECURSIVE DigitsToNat(_)
DigitsToNat(s) ==
    IF s = <<>> THEN 0
    ELSE DigitsToNat(SubSeq(s, 1, Len(s) - 1)) * 10 + DigitVal(s[Len(s)])

AllDigits(s) == \A i \in 1..Len(s) : IsDigit(s[i])

\* The digits after the point, as units of 1/Scale (three places are kept).
FracUnits(s) == DigitsToNat(SubSeq(s \o <<"0", "0", "0">>, 1, 3))

\* repr() of the float n/Scale: at least one digit after the point, no
\* trailing zeros beyond it.
RECURSIVE TrimZeros(_)
TrimZeros(s) ==
    IF Len(s) > 1 /\ s[Len(s)] = "0" THEN TrimZeros(SubSeq(s, 1, Len(s) - 1)) ELSE s

FormatFloat(n) ==
    (IF n < 0 THEN <<"-">> ELSE <<>>)
        \o NatDigits(Abs(n) \div Scale) \o <<".">>
        \o TrimZeros(ZeroPad(NatDigits(Abs(n) % Scale), 3))

\* str(x)
PyStr(x) ==
    CASE x.t = "str" -> x.s
      [] x.t = "nan" -> Txt_nan
      [] x.t = "none" -> <<"N", "o", "n", "e">>
      [] x.t = "num" -> FormatFloat(x.n)
      [] x.t = "date" ->
            IsoFormat(x.d) \o <<" ", "0", "0", ":", "0", "0", ":", "0", "0">>

\* The positions of the decimal point in u.
Points(u) == {i \in 1..Len(u) : u[i] = "."}

\* The float written with the digits ip before the point and fp after it.
FloatOfParts(ip, fp) ==
    IF AllDigits(ip) /\ AllDigits(fp) /\ Len(ip) + Len(fp) >= 1
    THEN [ok |-> TRUE, v |-> DigitsToNat(ip) * Scale + FracUnits(fp)]
    ELSE [ok |-> FALSE, v |-> 0]

\* The float written by the unsigned text u, its points being at dots.
FloatOfUnsigned(u, dots) ==
    IF dots = {} THEN FloatOfParts(u, <<>>)
    ELSE IF Cardinality(dots) > 1 THEN [ok |-> FALSE, v |-> 0]
    ELSE FloatOfParts(SubSeq(u, 1, Max(dots) - 1), SubSeq(u, Max(dots) + 1, Len(u)))

HasSign(b) == b # <<>> /\ b[1] \in {"-", "+"}

SignOf(b) == IF b # <<>> /\ b[1] = "-" THEN -1 ELSE 1

Unsigned(b) == IF HasSign(b) THEN Tail(b) ELSE b

Signed(b, f) == [ok |-> f.ok, v |-> SignOf(b) * f.v]

\* float() of text without blanks around it.
FloatOfStripped(b) == Signed(b, FloatOfUnsigned(Unsigned(b), Points(Unsigned(b))))

\* float(s) for a str of blanks, sign, digits and a point; anything else
\* raises ValueError.  ok says whether a value came out.
PyFloatOfText(s) == FloatOfStripped(Strip(s))

\* float(x) inside try/except: None when it raises, NaN for NaN.
TryFloatOfText(f) == IF f.ok THEN Num(f.v) ELSE None

TryFloat(x) ==
    CASE x.t = "num" -> x
      [] x.t = "nan" -> NaN
      [] x.t = "str" -> TryFloatOfText(PyFloatOfText(x.s))
      [] OTHER -> None

\* int() of text without blanks around it: a sign and digits, or a raise.
IntOfStripped(b) ==
    IF Unsigned(b) # <<>> /\ AllDigits(Unsigned(b))
    THEN [ok |-> TRUE, v |-> SignOf(b) * DigitsToNat(Unsigned(b))]
    ELSE [ok |-> FALSE, v |-> 0]

\* int(x): the integer, or a raise (NaN, a Timestamp, text that is no
\* integer literal).
PyInt(x) ==
    CASE x.t = "num" -> [ok |-> TRUE, v |-> DivTrunc(x.n, Scale)]
      [] x.t = "str" -> IntOfStripped(Strip(x.s))
      [] OTHER -> [ok |-> FALSE, v |-> 0]

\* Text of the form YYYY-MM-DD.
IsIsoShape(s) ==
    /\ Len(s) = 10
    /\ s[5] = "-" /\ s[8] = "-"
    /\ \A i \in {1, 2, 3, 4, 6, 7, 9, 10} : IsDigit(s[i])

\* The day y-m-d is on the calendar.
IsDay(y, m, d) == y >= 1 /\ m \in 1..12 /\ d \in 1..DaysInMonth(y, m)

\* pd.to_datetime(b).date().isoformat() for text b, or orig when it raises;
\* text is recognised as a date in ISO form only.
DateOfText(b, orig) ==
    IF /\ IsIsoShape(b)
       /\ IsDay(DigitsToNat(SubSeq(b, 1, 4)), DigitsToNat(SubSeq(b, 6, 7)),
                DigitsToNat(SubSeq(b, 9, 10)))
    THEN b
    ELSE orig

\* parse_date(val): '' for an empty cell, the ISO date of what
\* pd.to_datetime makes of it, or str(val) when that raises.  A number
\* counts nanoseconds from 1970-01-01.
parse_date(val) ==
    IF IsNa(val) \/ IsEmptyStr(val) THEN <<>>
    ELSE CASE val.t = "date" -> IsoFormat(val.d)
           [] val.t = "num" -> IsoFormat(<<1970, 1, 1>>)
           [] val.t = "str" -> DateOfText(Strip(val.s), val.s)

\* s[:-1]
AllButLast(s) == SubSeq(s, 1, Len(s) - 1)

\* float(s[:-1]) / 100.0, f being what float() made of s[:-1]; None when
\* it raised.
PercentOf(f) == IF f.ok THEN Num(DivTrunc(f.v, 100)) ELSE None

\* The percent heuristic with 1.0 itself taken for a percentage.
Heuristic_FromOne(v) ==
    IF v.t # "num" THEN None
    ELSE IF v.n >= 1 * Scale /\ v.n <= 100 * Scale THEN Num(DivTrunc(v.n, 100))
    ELSE v

\* v = float(val), None when it raises; v / 100.0 if 1.0 < v <= 100.0.
Heuristic(v) ==
    IF v.t # "num" THEN None
    ELSE IF v.n > 1 * Scale /\ v.n <= 100 * Scale THEN Num(DivTrunc(v.n, 100))
    ELSE v

\* parse_decimal(val): None, or the number as a decimal fraction.
parse_decimal(val) ==
    IF IsNa(val) \/ IsEmptyStr(val) THEN None
    ELSE IF val.t = "str" /\ EndsWithPercent(Strip(val.s))
    THEN PercentOf(PyFloatOfText(AllButLast(Strip(val.s))))
    ELSE Heuristic(TryFloat(val))

\* ------------------------------------------------------------ the import
\* dict.get(k) and d[k] = v on the name -> id maps (None is NullId).
MapGet(m, k) == IF k \in DOMAIN m THEN m[k] ELSE NullId

MapPut(m, k, v) == [x \in DOMAIN m \cup {k} |-> IF x = k THEN v ELSE m[x]]

\* str(r.get(col, '')).strip()
NameOf(r, col) == Strip(PyStr(Get(r, col, Str(<<>>))))

\* None if (pd.isna(x) or x == '') else str(x), as a TEXT column value.
TextOrNull(x) == IF IsNa(x) \/ IsEmptyStr(x) THEN NullText ELSE PyStr(x)

\* The value sqlite3 binds for the float (or NaN) x.
RealOf(x) == IF x.t = "num" THEN x.n ELSE NullReal

\* _get_or_create with the smallest id of the table returned in place of
\* cur.lastrowid.
_get_or_create_FirstId(tx, table, key_val, id_col) ==
    LET found == {r \in tx.s[table] : r.name = key_val}
        row == WithRowid(tx, table, [name |-> key_val])
    IN  IF found # {}
        THEN [tx |-> tx, id |-> (CHOOSE r \in found : TRUE)[id_col]]
        ELSE [tx |-> Insert(tx, table, row),
              id |-> IF tx.s[table] = {} THEN row[id_col] ELSE 1]

\* _get_or_create(cur, table, 'name', key_val, id_col): the id of the row
\* named key_val, inserted if no row has the name.
_get_or_create(tx, table, key_val, id_col) ==
    LET found == {r \in tx.s[table] : r.name = key_val}
        row == WithRowid(tx, table, [name |-> key_val])
    IN  IF found # {}
        THEN [tx |-> tx, id |-> (CHOOSE r \in found : TRUE)[id_col]]
        ELSE [tx |-> Insert(tx, table, row), id |-> row[id_col]]

\* ac_id.get(ac_name) or _get_or_create(...); ac_id[ac_name] = ac
AssetClassFor(st, ac_name) ==
    LET known == MapGet(st.ac_id, ac_name)
        g == IF known # NullId THEN [tx |-> st.tx, id |-> known]
             ELSE _get_or_create(st.tx, "asset_classes", ac_name, "asset_class_id")
    IN  [st |-> [st EXCEPT !.tx = g.tx, !.ac_id = MapPut(@, ac_name, g.id)],
         id |-> g.id]

\* The asset_classes sheet, row by row.
RECURSIVE ImportAssetClasses(_, _)
ImportAssetClasses(tx, rows) ==
    IF rows = <<>> \/ tx.err THEN tx
    ELSE LET name == NameOf(Head(rows), "name")
             t == IF name # <<>>
                  THEN InsertOrIgnore(tx, "asset_classes",
                           WithRowid(tx, "asset_classes", [name |-> name]))
                  ELSE tx
         IN  ImportAssetClasses(t, Tail(rows))

\* The benchmarks sheet, row by row.
RECURSIVE ImportBenchmarks(_, _)
ImportBenchmarks(tx, rows) ==
    IF rows = <<>> \/ tx.err THEN tx
    ELSE LET name == NameOf(Head(rows), "name")
             ticker == TextOrNull(Get(Head(rows), "ticker", None))
             t == IF name # <<>>
                  THEN InsertOrIgnore(tx, "benchmarks",
                           WithRowid(tx, "benchmarks",
                                     [name |-> name, ticker |-> ticker]))
                  ELSE tx
         IN  ImportBenchmarks(t, Tail(rows))

\* The benchmark of a funds row: looked up in bm_id, inserted when new,
\* None when the row names none.
BenchmarkFor(st, bm_name) ==
    IF bm_name = <<>> THEN [st |-> st, id |-> NullId]
    ELSE IF MapGet(st.bm_id, bm_name) # NullId
    THEN [st |-> st, id |-> MapGet(st.bm_id, bm_name)]
    ELSE LET row == WithRowid(st.tx, "benchmarks",
                              [name |-> bm_name, ticker |-> NullText])
         IN  [st |-> [st EXCEPT !.tx = Insert(@, "benchmarks", row),
                                !.bm_id = MapPut(@, bm_name, row.benchmark_id)],
              id |-> row.benchmark_id]

\* The funds sheet, row by row.
RECURSIVE ImportFunds(_, _)
ImportFunds(st, rows) ==
    IF rows = <<>> \/ st.tx.err THEN st
    ELSE LET r == Head(rows)
             name == NameOf(r, "name")
             ac_name == NameOf(r, "asset_class")
             bm_name == IF "benchmark" \in DOMAIN r THEN NameOf(r, "benchmark")
                        ELSE <<>>
         IN  IF name = <<>> \/ ac_name = <<>> THEN ImportFunds(st, Tail(rows))
             ELSE LET ac == AssetClassFor(st, ac_name)
                      bm == BenchmarkFor(ac.st, bm_name)
                      t == InsertOrIgnore(bm.st.tx, "funds",
                               WithRowid(bm.st.tx, "funds",
                                         [name |-> name, asset_class_id |-> ac.id,
                                          benchmark_id |-> bm.id]))
                  IN  ImportFunds([bm.st EXCEPT !.tx = t], Tail(rows))

\* The rows list of the returns sheet cut short at the first row whose fund
\* is unknown.
RECURSIVE ReturnsOfSheet_StopAtUnknown(_, _)
ReturnsOfSheet_StopAtUnknown(rows, fund_id) ==
    IF rows = <<>> THEN <<>>
    ELSE LET r == Head(rows)
             asof == parse_date(Get(r, "asof", None))
             fid == MapGet(fund_id, NameOf(r, "fund"))
             ret == parse_decimal(Get(r, "monthly_return", None))
         IN  IF fid = NullId THEN <<>>
             ELSE (IF asof # <<>> /\ ret.t # "none"
                   THEN <<[asof |-> asof, fund_id |-> fid, monthly_return |-> ret.n]>>
                   ELSE <<>>) \o ReturnsOfSheet_StopAtUnknown(Tail(rows), fund_id)

\* The rows list of the returns sheet: the rows with a date, a known fund
\* and a return that parses, in sheet order.
RECURSIVE ReturnsOfSheet(_, _)
ReturnsOfSheet(rows, fund_id) ==
    IF rows = <<>> THEN <<>>
    ELSE LET r == Head(rows)
             asof == parse_date(Get(r, "asof", None))
             fid == MapGet(fund_id, NameOf(r, "fund"))
             ret == parse_decimal(Get(r, "monthly_return", None))
         IN  (IF asof # <<>> /\ fid # NullId /\ ret.t # "none"
              THEN <<[asof |-> asof, fund_id |-> fid, monthly_return |-> ret.n]>>
              ELSE <<>>) \o ReturnsOfSheet(Tail(rows), fund_id)

\* The rows list of the contributions sheet with the amount put through
\* parse_decimal as a return or a weight is.
RECURSIVE ContributionsOfSheet_Percent(_)
ContributionsOfSheet_Percent(rows) ==
    IF rows = <<>> THEN <<>>
    ELSE LET r == Head(rows)
             asof == parse_date(Get(r, "asof", None))
             amount == parse_decimal(Get(r, "amount", None))
             source == TextOrNull(Get(r, "source", None))
         IN  (IF asof # <<>> /\ amount.t # "none"
              THEN <<[asof |-> asof, amount |-> RealOf(amount), source |-> source]>>
              ELSE <<>>) \o ContributionsOfSheet_Percent(Tail(rows))

\* The rows list of the contributions sheet: the rows with a date and an
\* amount that float() took (NaN is one).
RECURSIVE ContributionsOfSheet(_)
ContributionsOfSheet(rows) ==
    IF rows = <<>> THEN <<>>
    ELSE LET r == Head(rows)
             asof == parse_date(Get(r, "asof", None))
             amount == TryFloat(Get(r, "amount", None))
             source == TextOrNull(Get(r, "source", None))
         IN  (IF asof # <<>> /\ amount.t # "none"
              THEN <<[asof |-> asof, amount |-> RealOf(amount), source |-> source]>>
              ELSE <<>>) \o ContributionsOfSheet(Tail(rows))

\* The loop over the target_allocations sheet: asset classes are created on
\* the way, the rows list is collected in st.rows.
RECURSIVE AllocationsOfSheet(_, _)
AllocationsOfSheet(st, rows) ==
    IF rows = <<>> \/ st.tx.err THEN st
    ELSE LET r == Head(rows)
             asof == parse_date(Get(r, "asof", None))
             ac_name == NameOf(r, "asset_class")
             w == parse_decimal(Get(r, "weight", None))
         IN  IF asof = <<>> \/ ac_name = <<>> \/ w.t = "none"
             THEN AllocationsOfSheet(st, Tail(rows))
             ELSE AllocationsOfSheet(
                      [AssetClassFor(st, ac_name).st EXCEPT !.rows =
                          Append(@, [asof |-> asof,
                                     asset_class_id |-> AssetClassFor(st, ac_name).id,
                                     weight |-> w.n])],
                      Tail(rows))

\* The spending_policy sheet, row by row: every row replaces policy 1.
RECURSIVE ImportPolicy(_, _)
ImportPolicy(tx, rows) ==
    IF rows = <<>> \/ tx.err THEN tx
    ELSE LET r == Head(rows)
             name == Strip(PyStr(Or(Get(r, "name", Str(Txt_default)),
                                    Str(Txt_default))))
             rate == Or(parse_decimal(Get(r, "rate", None)), Num(45))
             smoothing_years == PyInt(Or(Get(r, "smoothing_years", None),
                                         Num(3 * Scale)))
             t == IF ~smoothing_years.ok THEN Raise(tx)
                  ELSE InsertOrReplace(tx, "spending_policy",
                           [policy_id |-> 1, name |-> name, rate |-> rate.n,
                            smoothing_years |-> smoothing_years.v])
         IN  ImportPolicy(t, Tail(rows))

\* The rows list of the inflation sheet: the rows with a date and an index
\* that float() took (NaN is one).
RECURSIVE InflationOfSheet(_)
InflationOfSheet(rows) ==
    IF rows = <<>> THEN <<>>
    ELSE LET r == Head(rows)
             asof == parse_date(Get(r, "asof", None))
             idx == TryFloat(Get(r, "cpi_index", None))
         IN  (IF asof # <<>> /\ idx.t # "none"
              THEN <<[asof |-> asof, cpi_index |-> RealOf(idx)]>>
              ELSE <<>>) \o InflationOfSheet(Tail(rows))

\* The rows of a sheet of the workbook; none when the sheet is missing.
Sheet(wb, name) == IF name \in DOMAIN wb THEN wb[name] ELSE <<>>

\* The steps of import_from_excel, in the order of the code: the sheets,
\* and the name -> id maps rebuilt between them.
ImportSteps ==
    <<"asset_classes", "benchmarks", "ac_id, bm_id", "funds", "fund_id",
      "returns", "contributions", "target_allocations", "executemany",
      "spending_policy", "inflation">>

\* The state of an import before its first step: the open transaction, the
\* maps not built yet, no allocation rows collected.
ImportStart(s) ==
    [tx |-> Tx(s), ac_id |-> <<>>, bm_id |-> <<>>, fund_id |-> <<>>, rows |-> <<>>]

\* One step of import_from_excel on the workbook wb.
ImportStep(st, wb, step) ==
    CASE step = "asset_classes" ->
            [st EXCEPT !.tx = ImportAssetClasses(@, Sheet(wb, "asset_classes"))]
      [] step = "benchmarks" ->
            [st EXCEPT !.tx = ImportBenchmarks(@, Sheet(wb, "benchmarks"))]
      [] step = "ac_id, bm_id" ->
            [st EXCEPT !.ac_id = IdByName(st.tx.s.asset_classes, "asset_class_id"),
                       !.bm_id = IdByName(st.tx.s.benchmarks, "benchmark_id")]
      [] step = "funds" -> ImportFunds(st, Sheet(wb, "funds"))
      [] step = "fund_id" ->
            [st EXCEPT !.fund_id = IdByName(st.tx.s.funds, "fund_id")]
      [] step = "returns" ->
            [st EXCEPT !.tx =
                ExecMany("INSERT OR REPLACE", @, "returns",
                         ReturnsOfSheet(Sheet(wb, "returns"), st.fund_id), FALSE)]
      [] step = "contributions" ->
            [st EXCEPT !.tx =
                ExecMany("INSERT", @, "contributions",
                         ContributionsOfSheet(Sheet(wb, "contributions")), TRUE)]
      [] step = "target_allocations" ->
            AllocationsOfSheet(st, Sheet(wb, "target_allocations"))
      [] step = "executemany" ->
            [st EXCEPT !.tx = ExecMany("INSERT OR REPLACE", @, "target_allocations",
                                       st.rows, TRUE)]
      [] step = "spending_policy" ->
            [st EXCEPT !.tx = ImportPolicy(@, Sheet(wb, "spending_policy"))]
      [] step = "inflation" ->
            [st EXCEPT !.tx =
                ExecMany("INSERT OR REPLACE", @, "inflation",
                         InflationOfSheet(Sheet(wb, "inflation")), FALSE)]

\* The steps from number i on; nothing runs after a statement has raised.
RECURSIVE ImportFrom(_, _, _)
ImportFrom(st, wb, i) ==
    IF i > Len(ImportSteps) \/ st.tx.err THEN st
    ELSE ImportFrom(ImportStep(st, wb, ImportSteps[i]), wb, i + 1)

\* import_from_excel(conn, xlsx_path) against the store s, wb being what
\* pandas reads from the file: the transaction as it stands at
\* conn.commit(), or at the statement that raised.
import_from_excel(s, wb) == ImportFrom(ImportStart(s), wb, 1).tx

\* ---------------------------------------------------------- the workbooks
\* Names and cell texts of the workbooks imported.
Txt_Alts == <<"A", "l", "t", "s">>

Txt_Alts_padded == <<" ", "A", "l", "t", "s", " ">>

Txt_Credit == <<"C", "r", "e", "d", "i", "t">>

Txt_Infra == <<"I", "n", "f", "r", "a">>

Txt_HFRI == <<"H", "F", "R", "I">>

Txt_Hedge == <<"H", "e", "d", "g", "e">>

Txt_Macro == <<"M", "a", "c", "r", "o">>

Txt_Ghost == <<"G", "h", "o", "s", "t">>

Txt_payout == <<"p", "a", "y", "o", "u", "t">>

Txt_abc == <<"a", "b", "c">>

Txt_1_2_pct == <<"1", ".", "2", "%">>

Txt_25_pct == <<"2", "5", "%">>

Txt_5_pct == <<"5", "%">>

Txt_2010_01_31 == <<"2", "0", "1", "0", "-", "0", "1", "-", "3", "1">>

Jan31 == Timestamp(<<2010, 1, 31>>)

Feb28 == Timestamp(<<2010, 2, 28>>)

Jun30 == Timestamp(<<2019, 6, 30>>)

\* The sheets import_from_excel looks for.
SheetNames ==
    {"asset_classes", "benchmarks", "funds", "returns", "contributions",
     "target_allocations", "spending_policy", "inflation"}

\* A template that comes with an example row in its funds sheet.
Template_WithExample ==
    [sh \in SheetNames |->
        IF sh = "funds"
        THEN <<[name |-> Str(Txt_Cash), asset_class |-> Str(Txt_Cash),
               benchmark |-> Str(Txt_T_Bill_3M)]>>
        ELSE <<>>]

\* The eight sheets make_template_xlsx writes: header rows only.
Template ==
    [asset_classes |-> <<>>, benchmarks |-> <<>>, funds |-> <<>>,
     returns |-> <<>>, contributions |-> <<>>, target_allocations |-> <<>>,
     spending_policy |-> <<>>, inflation |-> <<>>]

\* A workbook with every sheet filled in and no cell left empty but a
\* ticker and a source: names repeat across rows and sheets, returns and
\* allocations repeat a key, numbers come as percent text and as floats.
Filled ==
    [asset_classes |-> <<[name |-> Str(Txt_Alts)]>>,
     benchmarks |-> <<[name |-> Str(Txt_HFRI), ticker |-> NaN]>>,
     funds |->
        <<[name |-> Str(Txt_Hedge), asset_class |-> Str(Txt_Alts_padded),
           benchmark |-> Str(Txt_HFRI)],
          [name |-> Str(Txt_Macro), asset_class |-> Str(Txt_Credit),
           benchmark |-> Str(Txt_HFRI)],
          [name |-> Str(Txt_Credit), asset_class |-> Str(Txt_Credit),
           benchmark |-> Str(Txt_HFRI)]>>,
     returns |->
        <<[asof |-> Jan31, fund |-> Str(Txt_Hedge),
           monthly_return |-> Str(Txt_1_2_pct)],
          [asof |-> Jan31, fund |-> Str(Txt_Cash), monthly_return |-> Num(20)],
          [asof |-> Str(Txt_2010_01_31), fund |-> Str(Txt_Hedge),
           monthly_return |-> Num(4500)],
          [asof |-> Feb28, fund |-> Str(Txt_Macro),
           monthly_return |-> Num(-500)]>>,
     contributions |->
        <<[asof |-> Jan31, amount |-> Num(1000 * Scale), source |-> Str(Txt_gift)],
          [asof |-> Jan31, amount |-> Num(500 * Scale), source |-> NaN]>>,
     target_allocations |->
        <<[asof |-> Jun30, asset_class |-> Str(Txt_Credit), weight |-> Num(50 * Scale)],
          [asof |-> Jun30, asset_class |-> Str(Txt_Infra),
           weight |-> Str(Txt_25_pct)],
          [asof |-> Jun30, asset_class |-> Str(Txt_Infra), weight |-> Num(300)]>>,
     spending_policy |->
        <<[name |-> Str(Txt_payout), rate |-> Str(Txt_5_pct),
           smoothing_years |-> Num(5 * Scale)]>>,
     inflation |-> <<[asof |-> Jan31, cpi_index |-> Num(101 * Scale)]>>]

\* Rows whose name cell is empty, one in each of the three name sheets,
\* each followed by a row with a name.
BlankNames ==
    [asset_classes |->
        <<[name |-> NaN, note |-> Str(Txt_abc)],
          [name |-> Str(Txt_Alts), note |-> NaN]>>,
     benchmarks |->
        <<[name |-> NaN, ticker |-> Str(Txt_abc)],
          [name |-> Str(Txt_HFRI), ticker |-> NaN]>>,
     funds |->
        <<[name |-> NaN, asset_class |-> Str(Txt_Alts),
           benchmark |-> Str(Txt_HFRI)],
          [name |-> Str(Txt_Hedge), asset_class |-> Str(Txt_Alts),
           benchmark |-> Str(Txt_HFRI)]>>]

\* A funds sheet without a benchmark column, and returns and allocations
\* rows whose number is empty or no number, or whose fund is unknown.
Skipped ==
    [funds |-> <<[name |-> Str(Txt_Hedge), asset_class |-> Str(Txt_Alts)]>>,
     returns |->
        <<[asof |-> Jan31, fund |-> Str(Txt_Hedge), monthly_return |-> NaN],
          [asof |-> Jan31, fund |-> Str(Txt_Hedge),
           monthly_return |-> Str(Txt_abc)],
          [asof |-> Jan31, fund |-> Str(Txt_Ghost), monthly_return |-> Num(10)],
          [asof |-> Feb28, fund |-> Str(Txt_Hedge), monthly_return |-> Num(10)]>>,
     target_allocations |->
        <<[asof |-> Jun30, asset_class |-> Str(Txt_Infra), weight |-> NaN],
          [asof |-> Jun30, asset_class |-> Str(Txt_Alts),
           weight |-> Str(Txt_25_pct)]>>]

\* A contributions row with the amount left empty, among rows that are
\* complete.
BlankAmount ==
    [funds |-> <<[name |-> Str(Txt_Hedge), asset_class |-> Str(Txt_Alts)]>>,
     returns |-> <<[asof |-> Jan31, fund |-> Str(Txt_Hedge),
                    monthly_return |-> Num(10)]>>,
     contributions |->
        <<[asof |-> Jan31, amount |-> Num(1000 * Scale), source |-> Str(Txt_gift)],
          [asof |-> Feb28, amount |-> NaN, source |-> Str(Txt_gift)]>>]

\* An inflation row with the index left empty, after one that is complete.
BlankCpi ==
    [inflation |->
        <<[asof |-> Jan31, cpi_index |-> Num(101 * Scale)],
          [asof |-> Feb28, cpi_index |-> NaN]>>]

\* A spending_policy row with the rate left empty.
BlankRate ==
    [spending_policy |->
        <<[name |-> Str(Txt_payout), rate |-> NaN,
           smoothing_years |-> Num(5 * Scale)]>>]

\* A spending_policy row with smoothing_years left empty, after a
\* contributions row that is complete.
BlankSmoothing ==
    [contributions |->
        <<[asof |-> Jan31, amount |-> Num(1000 * Scale), source |-> Str(Txt_gift)]>>,
     spending_policy |->
        <<[name |-> Str(Txt_payout), rate |-> Str(Txt_5_pct),
           smoothing_years |-> NaN]>>]

\* A spending_policy sheet of two complete rows, the second with a rate
\* of zero.
ZeroRate ==
    [spending_policy |->
        <<[name |-> Str(Txt_default), rate |-> Str(Txt_5_pct),
           smoothing_years |-> Num(5 * Scale)],
          [name |-> Str(Txt_payout), rate |-> Num(0),
           smoothing_years |-> Num(4 * Scale)]>>]

\* A workbook that names what the sample data names, with other values: the
\* asset class Cash, the benchmark 3M T-Bill with a ticker, the fund Cash
\* in another asset class and against another benchmark, a weight for Cash
\* on 2019-06-30 and a policy called default.
Overlap ==
    [asset_classes |-> <<[name |-> Str(Txt_Cash)]>>,
     benchmarks |-> <<[name |-> Str(Txt_T_Bill_3M), ticker |-> Str(Txt_abc)]>>,
     funds |->
        <<[name |-> Str(Txt_Cash), asset_class |-> Str(Txt_Alts),
           benchmark |-> Str(Txt_HFRI)]>>,
     target_allocations |->
        <<[asof |-> Jun30, asset_class |-> Str(Txt_Cash),
           weight |-> Str(Txt_25_pct)]>>,
     spending_policy |->
        <<[name |-> Str(Txt_default), rate |-> Str(Txt_5_pct),
           smoothing_years |-> Num(5 * Scale)]>>]

\* A contributions sheet alone: two rows alike, amounts between 1 and 100
\* as float and as text, an outflow, and rows without a date or with an
\* amount that is no number.
Ledger ==
    [contributions |->
        <<[asof |-> Jan31, amount |-> Num(50 * Scale), source |-> Str(Txt_gift)],
          [asof |-> Jan31, amount |-> Num(50 * Scale), source |-> Str(Txt_gift)],
          [asof |-> Feb28, amount |-> Str(Txt_abc), source |-> Str(Txt_gift)],
          [asof |-> NaN, amount |-> Num(10 * Scale), source |-> NaN],
          [asof |-> Feb28, amount |-> Str(<<"5", "0">>), source |-> NaN],
          [asof |-> Feb28, amount |-> Num(-250 * Scale), source |-> NaN],
          [asof |-> Feb28, amount |-> Str(Txt_5_pct), source |-> Str(Txt_gift)]>>]

\* A funds sheet with a benchmark column that is left empty in its first
\* row and filled in in its second.
NoBenchmark ==
    [funds |->
        <<[name |-> Str(Txt_Hedge), asset_class |-> Str(Txt_Alts), benchmark |-> NaN],
          [name |-> Str(Txt_Macro), asset_class |-> Str(Txt_Alts),
           benchmark |-> Str(Txt_HFRI)]>>]

\* The workbooks imported, by number.
Workbooks ==
    <<Template, Filled, BlankNames, Skipped, BlankAmount, BlankCpi, BlankRate,
      BlankSmoothing, ZeroRate, Overlap, Ledger, NoBenchmark>>

\* ---------------------------------------------------------------- commands
\* The store files the commands are pointed at.
Paths == {"a", "b"}

\* --start-year, --end-year and --seed values tried.
StartYears == {2009, 2010, 2011}

EndYears == {2009, 2010}

\* --start-year values tried when two stores are seeded.
TwinStartYears == {2010, 2011}

RngSeeds == {1, 2}

\* The days on which commands are run, in calendar order.
TodayDates == <<(<<2010, 1, 20>>), (<<2010, 2, 14>>), (<<2011, 2, 10>>)>>

\* A connection in autocommit mode: every statement is kept as it is made.
Committed_Autocommit(tx, opened) == tx.s

\* conn.commit() at the end of a call that did not raise; otherwise the
\* finally: conn.close() of the command discards the open transaction.
Committed(tx, opened) == IF tx.err THEN opened ELSE tx.s

\* What a command was, for the history: its arguments, the day it ran and
\* whether it returned without raising.
OpRecord(op, p, start_year, end_year, rng_seed, wb, ok) ==
    [op |-> op, path |-> p, start_year |-> start_year, end_year |-> end_year,
     rng_seed |-> rng_seed, wb |-> wb, today |-> today, ok |-> ok]

\* The commands run so far against the store p, oldest first.
RECURSIVE OpsOf(_, _)
OpsOf(h, p) ==
    IF h = <<>> THEN <<>>
    ELSE (IF Head(h).path = p THEN <<Head(h)>> ELSE <<>>) \o OpsOf(Tail(h), p)

\* The months a seed command run today generates.
SeedDates(start_year, end_year, now) ==
    _month_ends(<<start_year, 1, 1>>, SeedEnd(end_year, now))

\* A printed line: the text of the format string and the value put into it.
Line(text, value) == <<text, value>>

\* print(...) of the seed and import commands when the file is missing.
Creating(s) ==
    IF s.exists THEN <<>>
    ELSE <<Line("DB does not exist; creating and initializing schema...", <<>>)>>

\* f"{n:,}"
RECURSIVE Thousands(_)
Thousands(n) ==
    IF n < 1000 THEN NatDigits(n)
    ELSE Thousands(n \div 1000) \o <<",">> \o ZeroPad(NatDigits(n % 1000), 3)

\* The tables _print_summary counts, in its order.
SummaryTables ==
    <<"asset_classes", "benchmarks", "funds", "returns", "contributions",
      "target_allocations", "spending_policy", "inflation">>

\* _print_summary(conn) on the store s: the lines it prints.
_print_summary(s) ==
    LET row == {r \in s.meta : r.key = Txt_schema_version}
        version == IF row # {} THEN (CHOOSE r \in row : TRUE).value ELSE <<"?">>
    IN  <<Line("Schema version:", version)>>
            \o [i \in 1..Len(SummaryTables) |->
                   Line(SummaryTables[i], Thousands(Cardinality(s[SummaryTables[i]])))]

\* The summary command with the schema ensured first, as seed and
\* import-xlsx do.
CmdSummary_Ensure(p) ==
    /\ Len(hist) < MaxOps
    /\ db' = [db EXCEPT ![p] = ensure_schema(@)]
    /\ hist' = Append(hist, OpRecord("summary", p, 0, NoYear, 0, 0, TRUE))
    /\ before' = db[p]
    /\ printed' = _print_summary(ensure_schema(db[p]))
    /\ UNCHANGED <<today, cell, parsed, months, run>>

\* main(), cmd == "summary": "DB not found" when the file is missing,
\* otherwise _print_summary on a connection that is then closed.
CmdSummary(p) ==
    /\ Len(hist) < MaxOps
    /\ db' = db
    /\ hist' = Append(hist, OpRecord("summary", p, 0, NoYear, 0, 0, TRUE))
    /\ before' = db[p]
    /\ printed' = IF ~db[p].exists THEN <<Line("DB not found:", <<p>>)>>
                  ELSE _print_summary(db[p])
    /\ UNCHANGED <<today, cell, parsed, months, run>>

\* main(), cmd == "init": init_db(db_path).
CmdInit(p) ==
    /\ Len(hist) < MaxOps
    /\ db' = [db EXCEPT ![p] = ensure_schema(@)]
    /\ hist' = Append(hist, OpRecord("init", p, 0, NoYear, 0, 0, TRUE))
    /\ before' = db[p]
    /\ printed' = <<Line("SQLite database is ready at:", <<p>>)>>
    /\ UNCHANGED <<today, cell, parsed, months, run>>

\* main(), cmd == "seed": init_db if the file is missing, then ensure_schema
\* and seed_sample_data on one connection, closed in the finally clause.
CmdSeed(p, start_year, end_year, rng_seed) ==
    /\ Len(hist) < MaxOps
    /\ Len(SeedDates(start_year, end_year, today)) <= MaxMonths
    /\ LET created == IF db[p].exists THEN db[p] ELSE ensure_schema(db[p])
           opened == ensure_schema(created)
           tx == seed_sample_data(opened, start_year, end_year, rng_seed, today)
       IN  /\ db' = [db EXCEPT ![p] = Committed(tx, opened)]
           /\ hist' = Append(hist, OpRecord("seed", p, start_year, end_year,
                                            rng_seed, 0, ~tx.err))
           /\ printed' = Creating(db[p])
                            \o (IF tx.err THEN <<>>
                                ELSE <<Line("Seeded sample data.", <<>>)>>)
    /\ before' = db[p]
    /\ UNCHANGED <<today, cell, parsed, months, run>>

\* seed_sample_data cut short by the storage (a full disk, a locked file):
\* the asset classes and benchmarks are inserted, the next statement raises
\* sqlite3.OperationalError.  No statement of the seed raises on data the
\* program can have stored, so this is how its error path is reached.
SeedInterrupted(s) ==
    Raise(ExecMany("INSERT OR IGNORE",
                   ExecMany("INSERT OR IGNORE", Tx(s), "asset_classes",
                            [i \in 1..Len(assets) |-> [name |-> assets[i]]], TRUE),
                   "benchmarks", benchmarks, TRUE))

\* main(), cmd == "seed", with seed_sample_data raising partway: the
\* finally clause closes the connection, nothing was committed.
CmdSeedInterrupted(p, start_year, rng_seed) ==
    /\ Len(hist) < MaxOps
    /\ LET created == IF db[p].exists THEN db[p] ELSE ensure_schema(db[p])
           opened == ensure_schema(created)
           tx == SeedInterrupted(opened)
       IN  /\ db' = [db EXCEPT ![p] = Committed(tx, opened)]
           /\ hist' = Append(hist, OpRecord("seed", p, start_year, NoYear,
                                            rng_seed, 0, ~tx.err))
           /\ printed' = Creating(db[p])
    /\ before' = db[p]
    /\ UNCHANGED <<today, cell, parsed, months, run>>

\* The calendar moves on between two commands.
AdvanceDate ==
    /\ \E i \in 1..Len(TodayDates) - 1 :
          /\ today = TodayDates[i]
          /\ today' = TodayDates[i + 1]
    /\ UNCHANGED <<db, hist, before, cell, parsed, printed, months, run>>

\* No command in progress, no store file on disk.
Idle ==
    [cmd |-> "none", path |-> "a", pc |-> "idle", files |-> {}, found |-> FALSE,
     open |-> 0, opened |-> 0, raised |-> FALSE]

\* No call of _month_ends on its own yet.
NoCall == [start |-> <<1, 1, 1>>, end |-> <<1, 1, 1>>, out |-> <<>>, called |-> FALSE]

Init ==
    /\ db = [p \in Paths |-> NoStore]
    /\ today = TodayDates[1]
    /\ hist = <<>>
    /\ before = NoStore
    /\ cell = NaN
    /\ parsed = None
    /\ printed = <<>>
    /\ months = NoCall
    /\ run = Idle

\* main(), cmd == "import-xlsx", with workbook number w: init_db if the
\* file is missing, then ensure_schema and import_from_excel on one
\* connection, closed in the finally clause.
CmdImport(p, w) ==
    /\ Len(hist) < MaxOps
    /\ LET created == IF db[p].exists THEN db[p] ELSE ensure_schema(db[p])
           opened == ensure_schema(created)
           tx == import_from_excel(opened, Workbooks[w])
       IN  /\ db' = [db EXCEPT ![p] = Committed(tx, opened)]
           /\ hist' = Append(hist, OpRecord("import", p, 0, NoYear, 0, w, ~tx.err))
           /\ printed' = Creating(db[p])
                            \o (IF tx.err THEN <<>>
                                ELSE <<Line("Imported data from Excel.", <<>>)>>)
    /\ before' = db[p]
    /\ UNCHANGED <<today, cell, parsed, months, run>>

\* parse_decimal called on the cell v.
CallParseDecimal(v) ==
    /\ cell' = v
    /\ parsed' = parse_decimal(v)
    /\ UNCHANGED <<db, today, hist, before, printed, months, run>>

\* Seeding one store, again and again, up to the last full month.
NextSeed ==
    \/ \E sy \in StartYears, rs \in RngSeeds : CmdSeed("a", sy, NoYear, rs)
    \/ AdvanceDate

SpecSeed == Init /\ [][NextSeed]_vars

\* Seeding one store with --end-year given.
NextRange ==
    \/ \E sy \in StartYears, ey \in EndYears, rs \in RngSeeds :
          CmdSeed("a", sy, ey, rs)
    \/ AdvanceDate

SpecRange == Init /\ [][NextRange]_vars

\* Seeding two stores side by side.
NextTwin ==
    \/ \E p \in Paths, sy \in TwinStartYears, rs \in RngSeeds :
          CmdSeed(p, sy, NoYear, rs)
    \/ AdvanceDate

SpecTwin == Init /\ [][NextTwin]_vars

\* Commands against one store on a day in February 2010: init, summary,
\* seed from --start-year 2010 (one month of series) and import, in any
\* order.
InitImport ==
    /\ db = [p \in Paths |-> NoStore]
    /\ today = TodayDates[2]
    /\ hist = <<>>
    /\ before = NoStore
    /\ cell = NaN
    /\ parsed = None
    /\ printed = <<>>
    /\ months = NoCall
    /\ run = Idle

NextImport ==
    \/ CmdInit("a")
    \/ CmdSummary("a")
    \/ \E rs \in RngSeeds : CmdSeed("a", 2010, NoYear, rs)
    \/ CmdSeedInterrupted("a", 2010, 1)
    \/ \E w \in 1..Len(Workbooks) : CmdImport("a", w)

SpecImport == InitImport /\ [][NextImport]_vars

\* The cells parse_decimal is tried on: floats around the two thresholds,
\* and text put together from a sign, digits, a fraction, a percent sign
\* and blanks, or no number at all.
FloatCells ==
    {Num(n) : n \in {-250 * Scale, -1 * Scale, -500, -1, 0, 1, 20, 999, 1 * Scale,
                     1 * Scale + 1, 1200, 4500, 50 * Scale, 100 * Scale - 1,
                     100 * Scale, 100 * Scale + 1, 250 * Scale}}

TextCells ==
    {Str(lead \o sign \o ip \o fp \o pct) :
        lead \in {<<>>, <<" ">>},
        sign \in {<<>>, <<"-">>},
        ip \in {<<>>, <<"0">>, <<"1">>, <<"5", "0">>, <<"1", "0", "0">>,
                <<"1", "0", "1">>},
        fp \in {<<>>, <<".", "2">>},
        pct \in {<<>>, <<"%">>, <<"%", " ">>}}

OtherCells == {NaN, Str(<<>>), Str(Txt_abc), Str(<<"%">>), Jan31}

\* The years, and days of the month, of the dates handed to _month_ends.
SpanYears == {1999, 2000, 2011, 2012, 2099, 2100}

SpanDays == {1, 28}

SpanDates == {<<y, m, d>> : y \in SpanYears, m \in 1..12, d \in SpanDays}

\* The number of months from start's month to end's month, both counted;
\* negative or zero when start's month is after end's.
SpanLen(start, end) == (end[1] * 12 + end[2]) - (start[1] * 12 + start[2]) + 1

\* The (start, end) arguments tried: no span longer than MaxMonths.
SpanPairs == {x \in SpanDates \X SpanDates : SpanLen(x[1], x[2]) <= MaxMonths}

\* list(_month_ends(start, end)) for the arguments drawn at the start.
CallMonthEnds ==
    /\ ~months.called
    /\ months' = [months EXCEPT !.out = _month_ends(months.start, months.end),
                                !.called = TRUE]
    /\ UNCHANGED <<db, today, hist, before, cell, parsed, printed, run>>

InitMonths ==
    /\ db = [p \in Paths |-> NoStore]
    /\ today = TodayDates[1]
    /\ hist = <<>>
    /\ before = NoStore
    /\ cell = NaN
    /\ parsed = None
    /\ printed = <<>>
    /\ months \in {[start |-> x[1], end |-> x[2], out |-> <<>>, called |-> FALSE] :
                      x \in SpanPairs}
    /\ run = Idle

NextMonths == CallMonthEnds

SpecMonths == InitMonths /\ [][NextMonths]_vars

\* ------------------------------------------------- commands, step by step
\* The commands of main() that touch the store.
Commands == {"init", "seed", "summary", "import-xlsx"}

\* Where a command goes first: init calls init_db; seed and import-xlsx
\* call init_db when the file is missing and connect otherwise; summary
\* returns at once when the file is missing.
FirstStep(cmd, found) ==
    CASE cmd = "init" -> "init_db.connect"
      [] cmd = "summary" -> IF found THEN "main.connect" ELSE "returned"
      [] OTHER -> IF found THEN "main.connect" ELSE "init_db.connect"

\* A raise that leaves the function at once: no finally clause on the way.
OnRaise_NoFinally(pc) == "failed"

\* Where control goes when the call at pc raises: the finally clause of the
\* try statement the call is in.
OnRaise(pc) ==
    CASE pc = "init_db.ensure_schema" -> "init_db.close"
      [] pc = "main.ensure_schema" -> "main.close"
      [] pc = "main.body" -> "main.close"

\* Where control goes when the call at pc returns.
OnReturn(cmd, pc) ==
    CASE pc = "init_db.connect" -> "init_db.ensure_schema"
      [] pc = "init_db.ensure_schema" -> "init_db.close"
      [] pc = "main.connect" ->
            IF cmd = "summary" THEN "main.body" ELSE "main.ensure_schema"
      [] pc = "main.ensure_schema" -> "main.body"
      [] pc = "main.body" -> "main.close"

\* Where control goes after conn.close() in a finally clause: on with the
\* exception if one is in flight; else init_db returns to main, which
\* connects (seed, import-xlsx) or prints and returns (init); and main's
\* own try statement is the last thing the command does.
AfterClose(cmd, pc, raised) ==
    IF raised THEN "failed"
    ELSE IF pc = "init_db.close" /\ cmd # "init" THEN "main.connect"
    ELSE "returned"

\* main() is entered with a command and a path.
Start(cmd, p) ==
    /\ run.pc = "idle"
    /\ run' = [cmd |-> cmd, path |-> p, files |-> run.files,
               found |-> p \in run.files,
               pc |-> FirstStep(cmd, p \in run.files),
               open |-> 0, opened |-> 0, raised |-> FALSE]
    /\ UNCHANGED <<db, today, hist, before, cell, parsed, printed, months>>

\* _connect(p): sqlite3.connect creates the file if it is missing.
Connect ==
    /\ run.pc \in {"init_db.connect", "main.connect"}
    /\ run' = [run EXCEPT !.pc = OnReturn(run.cmd, run.pc),
                          !.open = @ + 1, !.opened = @ + 1,
                          !.files = @ \cup {run.path}]
    /\ UNCHANGED <<db, today, hist, before, cell, parsed, printed, months>>

\* ensure_schema(conn), or the body of the command (seed_sample_data,
\* import_from_excel, _print_summary), returns.
CallReturns ==
    /\ run.pc \in {"init_db.ensure_schema", "main.ensure_schema", "main.body"}
    /\ run' = [run EXCEPT !.pc = OnReturn(run.cmd, run.pc)]
    /\ UNCHANGED <<db, today, hist, before, cell, parsed, printed, months>>

\* The same call raises.
CallRaises ==
    /\ run.pc \in {"init_db.ensure_schema", "main.ensure_schema", "main.body"}
    /\ run' = [run EXCEPT !.pc = OnRaise(run.pc), !.raised = TRUE]
    /\ UNCHANGED <<db, today, hist, before, cell, parsed, printed, months>>

\* finally: conn.close()
Close ==
    /\ run.pc \in {"init_db.close", "main.close"}
    /\ run' = [run EXCEPT !.pc = AfterClose(run.cmd, run.pc, run.raised),
                          !.open = @ - 1]
    /\ UNCHANGED <<db, today, hist, before, cell, parsed, printed, months>>

\* The process ends; the files stay.
Exit ==
    /\ run.pc \in {"returned", "failed"}
    /\ run' = [Idle EXCEPT !.files = run.files]
    /\ UNCHANGED <<db, today, hist, before, cell, parsed, printed, months>>

NextRun ==
    \/ \E cmd \in Commands, p \in Paths : Start(cmd, p)
    \/ Connect
    \/ CallReturns
    \/ CallRaises
    \/ Close
    \/ Exit

SpecRun == Init /\ [][NextRun]_vars

NextParse == \E v \in FloatCells \cup TextCells \cup OtherCells : CallParseDecimal(v)

SpecParse == Init /\ [][NextParse]_vars

\* ------------------------------------------------------- reading the state
Range(f) == {f[i] : i \in DOMAIN f}

LastOp == hist[Len(hist)]

\* The eight domain tables of a store (meta and the file itself left out).
DomainTables(s) ==
    <<s.asset_classes, s.benchmarks, s.funds, s.returns, s.contributions,
      s.target_allocations, s.spending_policy, s.inflation>>

\* The only command p has seen is one seed: it seeded a fresh store.
SeededOnce(p) ==
    LET o == OpsOf(hist, p) IN Len(o) = 1 /\ o[1].op = "seed" /\ o[1].ok

\* The last command seeded a store that the command before had seeded too.
Reseeded ==
    /\ Len(hist) >= 2
    /\ LastOp.op = "seed" /\ LastOp.ok
    /\ LET o == OpsOf(hist, LastOp.path)
       IN  Len(o) >= 2 /\ o[Len(o) - 1].op = "seed" /\ o[Len(o) - 1].ok

\* The seed command before the last one on the same store.
PrevSeed == LET o == OpsOf(hist, LastOp.path) IN o[Len(o) - 1]

\* The parameters of two seed commands agree, the day they ran included.
SameSeedCall(x, y) ==
    /\ x.start_year = y.start_year /\ x.end_year = y.end_year
    /\ x.rng_seed = y.rng_seed /\ x.today = y.today

\* The last command was an import; one that returned without raising.
LastImport == Len(hist) >= 1 /\ LastOp.op = "import"

ImportedOk == LastImport /\ LastOp.ok

\* The workbook the last command imported, and one of its sheets.
LastWb == Workbooks[LastOp.wb]

LastSheet(name) == Sheet(LastWb, name)

\* The store the last command left behind.
After == db[LastOp.path]

\* What an import-xlsx command of the workbook wb leaves of the store s.
Imported(s, wb) ==
    Committed(import_from_excel(ensure_schema(s), wb), ensure_schema(s))

\* The key of a returns row.
ReturnKey(r) == <<r.asof, r.fund_id>>

\* The rows of the last workbook's returns sheet that the import kept, with
\* the fund ids of the store it left behind.
KeptReturns == ReturnsOfSheet(LastSheet("returns"), IdByName(After.funds, "fund_id"))

\* The indices of the rows of a sheet.
RowsOf(name) == 1..Len(LastSheet(name))

\* f"{y}-07-01"
July1(y) == ZeroPad(NatDigits(y), 4) \o <<"-", "0", "7", "-", "0", "1">>

\* ------------------------------------------------------------------ claims

\* C1: seeding a fresh store with end_year given generates returns and
\* inflation rows for exactly the month-ends of January of start_year
\* through December of end_year, whatever the current date.
C1_EndYearBoundsTheRange ==
    \A p \in Paths :
        SeededOnce(p) /\ OpsOf(hist, p)[1].end_year # NoYear =>
            LET o == OpsOf(hist, p)[1]
                want == {IsoFormat(d) :
                            d \in Range(_month_ends(<<o.start_year, 1, 1>>,
                                                    <<o.end_year, 12, 31>>))}
            IN  /\ {r.asof : r \in db[p].returns} = want
                /\ {r.asof : r \in db[p].inflation} = want

\* C2: after a store is seeded again with another rng_seed, every returns
\* row and every inflation row of a date the later call generated holds the
\* value the later call generated.
C2_ReseedOverwrites ==
    Reseeded /\ PrevSeed.rng_seed # LastOp.rng_seed =>
        LET s == db[LastOp.path]
            dates == SeedDates(LastOp.start_year, LastOp.end_year, LastOp.today)
            drawn == ReturnRows(dates, Random(LastOp.rng_seed),
                                IdByName(s.funds, "fund_id"))
            cpi == CpiRows(dates, 100 * Scale, drawn.rng)
        IN  /\ \A i \in 1..Len(drawn.rows) : drawn.rows[i] \in s.returns
            /\ \A i \in 1..Len(cpi) : cpi[i] \in s.inflation

\* C3: seeding a store a second time with the same start_year, end_year and
\* rng_seed on the same day leaves every domain table as the first call
\* left it.
C3_ReseedIdempotent ==
    Reseeded /\ SameSeedCall(PrevSeed, LastOp) =>
        DomainTables(db[LastOp.path]) = DomainTables(before)

\* C4: after a seed of a fresh store the contributions are one row per year
\* from max(start_year, 2010) to the year the generated range ends in, each
\* dated July 1, +2,000,000, 'gift', and nothing else.
C4_ContributionsPerYear ==
    \A p \in Paths :
        SeededOnce(p) =>
            LET o == OpsOf(hist, p)[1]
                lo == IF o.start_year > 2010 THEN o.start_year ELSE 2010
                hi == SeedEnd(o.end_year, o.today)[1]
                c == db[p].contributions
            IN  /\ \A y \in lo..hi :
                      Cardinality({r \in c : r.asof = July1(y)}) = 1
                /\ \A r \in c :
                      /\ \E y \in lo..hi : r.asof = July1(y)
                      /\ r.amount = 2000000 * Scale
                      /\ r.source = Txt_gift
                /\ Cardinality(c) = (IF hi >= lo THEN hi - lo + 1 ELSE 0)

\* A fresh store seeded through two contribution years.
C4_WitnessTwoYears ==
    \E p \in Paths :
        /\ SeededOnce(p)
        /\ Cardinality(db[p].contributions) = 2

\* A fresh store seeded from 2009: the first contribution is the one of 2010.
C4_Witness ==
    \E p \in Paths :
        /\ SeededOnce(p)
        /\ OpsOf(hist, p)[1].start_year < 2010
        /\ db[p].contributions # {}

C6_ReturnsUpsert ==
    /\ \A p \in Paths : \A r1, r2 \in db[p].returns :
          ReturnKey(r1) = ReturnKey(r2) => r1 = r2
    /\ ImportedOk =>
          \A i \in 1..Len(KeptReturns) :
              (\A j \in (i + 1)..Len(KeptReturns) :
                  ReturnKey(KeptReturns[j]) # ReturnKey(KeptReturns[i]))
              => KeptReturns[i] \in After.returns

\* An import whose returns sheet gives one key twice with two values, and
\* gives another key that held another value in the store before.
C6_Witness ==
    /\ ImportedOk
    /\ \E i, j \in 1..Len(KeptReturns) :
          /\ i < j
          /\ ReturnKey(KeptReturns[i]) = ReturnKey(KeptReturns[j])
          /\ KeptReturns[i].monthly_return # KeptReturns[j].monthly_return
    /\ \E r \in before.returns : \E i \in 1..Len(KeptReturns) :
          /\ ReturnKey(r) = ReturnKey(KeptReturns[i])
          /\ r.monthly_return # KeptReturns[i].monthly_return
          /\ KeptReturns[i] \in After.returns

\* The text of a cell is a number once blanks around it are dropped.
IsNumberText(s) == PyFloatOfText(s).ok

NameGiven(r) ==
    /\ ~IsNa(Get(r, "name", None))
    /\ ~IsEmptyStr(Get(r, "name", None))

\* The workbook without the rows of its three name sheets that have no name.
WithoutBlankNames(wb) ==
    [sh \in DOMAIN wb |->
        IF sh \in {"asset_classes", "benchmarks", "funds"}
        THEN SelectSeq(wb[sh], NameGiven)
        ELSE wb[sh]]

\* C8: an import drops the rows of the asset_classes, benchmarks and funds
\* sheets whose name cell is empty: it leaves the store as the import of
\* the workbook without those rows does.
C8_BlankNameDropped ==
    LastImport => After = Imported(before, WithoutBlankNames(LastWb))

\* The cell is a number: a float, or text that float() takes, with or
\* without a trailing percent sign.
IsNumber(x) ==
    \/ x.t = "num"
    \/ /\ x.t = "str"
       /\ \/ IsNumberText(x.s)
          \/ EndsWithPercent(Strip(x.s)) /\ IsNumberText(AllButLast(Strip(x.s)))

\* The required numeric columns of the sheets.
NumericColumns ==
    [returns |-> {"monthly_return"}, target_allocations |-> {"weight"},
     contributions |-> {"amount"}, inflation |-> {"cpi_index"},
     spending_policy |-> {"rate", "smoothing_years"}]

\* The rows of a sheet whose required numeric cells all are numbers.
RECURSIVE NumbersGiven(_, _)
NumbersGiven(rows, cols) ==
    IF rows = <<>> THEN <<>>
    ELSE (IF \A c \in cols : IsNumber(Get(Head(rows), c, None))
          THEN <<Head(rows)>> ELSE <<>>) \o NumbersGiven(Tail(rows), cols)

\* The workbook without the rows that lack a required number.
WithoutBadNumbers(wb) ==
    [sh \in DOMAIN wb |->
        IF sh \in DOMAIN NumericColumns
        THEN NumbersGiven(wb[sh], NumericColumns[sh])
        ELSE wb[sh]]

\* C9: an import of a workbook with rows whose required numeric cell is
\* empty or no number returns without raising and leaves the store as the
\* import of the workbook without those rows does.
C9_BadNumberSkipped ==
    LastImport /\ WithoutBadNumbers(LastWb) # LastWb =>
        /\ LastOp.ok
        /\ After = Imported(before, WithoutBadNumbers(LastWb))

\* The rows of the funds and target_allocations sheets that the import
\* goes on with, by index.
FundRows ==
    {i \in RowsOf("funds") :
        /\ NameOf(LastSheet("funds")[i], "name") # <<>>
        /\ NameOf(LastSheet("funds")[i], "asset_class") # <<>>}

AllocationRows ==
    {i \in RowsOf("target_allocations") :
        /\ parse_date(Get(LastSheet("target_allocations")[i], "asof", None)) # <<>>
        /\ NameOf(LastSheet("target_allocations")[i], "asset_class") # <<>>
        /\ parse_decimal(Get(LastSheet("target_allocations")[i], "weight", None)).t
              # "none"}

\* The asset class names the last workbook presents: in its asset_classes
\* sheet, and in the rows of the other two sheets.
ListedNames ==
    {NameOf(LastSheet("asset_classes")[i], "name") : i \in RowsOf("asset_classes")}
        \ {<<>>}

ReferredNames ==
    {NameOf(LastSheet("funds")[i], "asset_class") : i \in FundRows}
        \cup {NameOf(LastSheet("target_allocations")[i], "asset_class") :
                 i \in AllocationRows}

\* The asset class names in a store, and the names among the referred ones
\* that the store did not have before the import.
NamesIn(s) == {a.name : a \in s.asset_classes}

NewNames == ReferredNames \ NamesIn(before)

\* The name of the asset class with the id ac in the store left behind.
ClassNamed(ac) == {a.name : a \in {x \in After.asset_classes : x.asset_class_id = ac}}

\* C10: after an import, every asset class name that a funds row or a
\* target_allocations row referred to and the store did not have is there
\* exactly once, the number of asset classes has risen by the number of
\* distinct new names, and every fund and allocation the import wrote
\* refers to the asset class its row names.
C10_GetOrCreateOnce ==
    ImportedOk =>
        /\ \A n \in NewNames :
              Cardinality({a \in After.asset_classes : a.name = n}) = 1
        /\ Cardinality(After.asset_classes)
              = Cardinality(before.asset_classes)
                + Cardinality((ReferredNames \cup ListedNames) \ NamesIn(before))
        /\ \A f \in After.funds \ before.funds :
              \E i \in FundRows :
                  /\ NameOf(LastSheet("funds")[i], "name") = f.name
                  /\ \A j \in FundRows :
                        NameOf(LastSheet("funds")[j], "name") = f.name => i <= j
                  /\ ClassNamed(f.asset_class_id)
                        = {NameOf(LastSheet("funds")[i], "asset_class")}
        /\ \A i \in AllocationRows :
              \E t \in After.target_allocations :
                  /\ t.asof = parse_date(Get(LastSheet("target_allocations")[i],
                                             "asof", None))
                  /\ ClassNamed(t.asset_class_id)
                        = {NameOf(LastSheet("target_allocations")[i], "asset_class")}

\* An import that met a new asset class name in two funds rows and in an
\* allocation row, and wrote a fund for it.
C10_Witness ==
    /\ ImportedOk
    /\ \E n \in NewNames :
          /\ Cardinality({i \in FundRows :
                NameOf(LastSheet("funds")[i], "asset_class") = n}) >= 2
          /\ \E i \in AllocationRows :
                NameOf(LastSheet("target_allocations")[i], "asset_class") = n
          /\ \E f \in After.funds \ before.funds : ClassNamed(f.asset_class_id) = {n}

\* The last row of the last workbook's spending_policy sheet.
LastPolicyRow == LastSheet("spending_policy")[Len(LastSheet("spending_policy"))]

\* C11: after an import of a workbook whose spending_policy sheet has rows,
\* the last of them complete, the policy row with policy_id 1 holds the
\* name, the rate and the smoothing_years of that last row, and the import
\* has left no other policy row behind than those the store had before.
C11_LastPolicyRowKept ==
    /\ ImportedOk
    /\ LastSheet("spending_policy") # <<>>
    /\ NameGiven(LastPolicyRow)
    /\ IsNumber(Get(LastPolicyRow, "rate", None))
    /\ IsNumber(Get(LastPolicyRow, "smoothing_years", None))
    => /\ \E r \in After.spending_policy :
            /\ r.policy_id = 1
            /\ r.name = NameOf(LastPolicyRow, "name")
            /\ r.rate = parse_decimal(Get(LastPolicyRow, "rate", None)).n
            /\ r.smoothing_years = PyInt(Get(LastPolicyRow, "smoothing_years", None)).v
       /\ \A r \in After.spending_policy : r.policy_id = 1 \/ r \in before.spending_policy

\* C12: the workbook make_template_xlsx writes has the eight sheets the
\* importer looks for and no data row, and an import of it returns without
\* raising and leaves every domain table as it was (empty in a store that
\* was fresh).
C12_TemplateRoundTrip ==
    /\ DOMAIN Template = SheetNames
    /\ \A sh \in SheetNames : Template[sh] = <<>>
    /\ LastImport /\ LastWb = Template =>
          /\ LastOp.ok
          /\ DomainTables(After) = DomainTables(before)
          /\ ~before.exists => \A i \in 1..Len(DomainTables(After)) :
                                  DomainTables(After)[i] = {}

\* The template has been imported into a store that held seeded rows, and
\* into a store file that did not exist.
C12_Witness ==
    /\ LastImport /\ LastWb = Template
    /\ before.returns # {} /\ before.funds # {}
    /\ After.exists

C12_WitnessFresh == LastImport /\ LastWb = Template /\ ~before.exists /\ After.exists

\* The schema_version row ensure_schema writes.
VersionRow == [key |-> Txt_schema_version, value |-> NatDigits(SCHEMA_VERSION)]

\* Values a schema_version row written by another release may hold.
OldVersions == {<<"0">>, <<"2">>, <<"1", "0">>}

\* The store s as another release would have left its meta table.
WithVersion(s, v) == [s EXCEPT !.meta = {[key |-> Txt_schema_version, value |-> v]}]

\* C13: ensure_schema is idempotent. Every store a command has touched has
\* its tables and exactly one schema_version row, holding SCHEMA_VERSION;
\* an init command leaves every domain table as it found it; a further call
\* changes nothing at all, and a call on a store with another version
\* value replaces that value.
C13_EnsureSchemaIdempotent ==
    /\ \A p \in Paths :
          db[p].exists =>
              /\ db[p].meta = {VersionRow}
              /\ ensure_schema(db[p]) = db[p]
              /\ \A v \in OldVersions :
                    /\ ensure_schema(WithVersion(db[p], v)).meta = {VersionRow}
                    /\ DomainTables(ensure_schema(WithVersion(db[p], v)))
                          = DomainTables(db[p])
    /\ Len(hist) >= 1 /\ LastOp.op = "init" =>
          /\ After.exists
          /\ DomainTables(After) = DomainTables(before)

\* An init command has run on a store that existed and held rows.
C13_Witness ==
    /\ Len(hist) >= 1 /\ LastOp.op = "init"
    /\ before.exists /\ before.returns # {} /\ before.spending_policy # {}

\* Every reference of the store s leads to a row.
ReferencesHold(s) ==
    /\ \A f \in s.funds :
          /\ \E a \in s.asset_classes : a.asset_class_id = f.asset_class_id
          /\ \/ f.benchmark_id = NullId
             \/ \E b \in s.benchmarks : b.benchmark_id = f.benchmark_id
    /\ \A r \in s.returns : \E f \in s.funds : f.fund_id = r.fund_id
    /\ \A t \in s.target_allocations :
          \E a \in s.asset_classes : a.asset_class_id = t.asset_class_id

\* Rows that refer to an asset class, a benchmark and a fund the store s
\* does not have, by table.
Dangling(s) ==
    [funds |->
        {[fund_id |-> NextRowid(s.funds, "fund_id"), name |-> Txt_Ghost,
          asset_class_id |-> NextRowid(s.asset_classes, "asset_class_id"),
          benchmark_id |-> NullId],
         [fund_id |-> NextRowid(s.funds, "fund_id"), name |-> Txt_Ghost,
          asset_class_id |-> 1,
          benchmark_id |-> NextRowid(s.benchmarks, "benchmark_id")]},
     returns |->
        {[asof |-> Txt_2010_01_31, fund_id |-> NextRowid(s.funds, "fund_id"),
          monthly_return |-> 10]},
     target_allocations |->
        {[allocation_id |-> NextRowid(s.target_allocations, "allocation_id"),
          asof |-> Txt_2010_01_31,
          asset_class_id |-> NextRowid(s.asset_classes, "asset_class_id"),
          weight |-> 10]}]

\* C14: in every store reached by init, seed and import commands every
\* fund refers to an asset class and, unless its benchmark is NULL, to a
\* benchmark of the store, every returns row to a fund and every
\* target_allocations row to an asset class; and a statement that would
\* write a row referring to none raises, whatever its conflict clause.
C14_ReferentialIntegrity ==
    \A p \in Paths :
        /\ ReferencesHold(db[p])
        /\ db[p].exists =>
              \A table \in DOMAIN Dangling(db[p]) : \A row \in Dangling(db[p])[table] :
                  \A stmt \in {"INSERT", "INSERT OR IGNORE", "INSERT OR REPLACE"} :
                      Execute(stmt, Tx(db[p]), table, row).err

\* A store with funds, some with a benchmark and some without, returns and
\* allocations, left by an import on top of a seed.
C14_Witness ==
    /\ ImportedOk
    /\ \E f \in After.funds : f.benchmark_id = NullId
    /\ \E f \in After.funds : f.benchmark_id # NullId
    /\ After.funds # before.funds /\ before.funds # {}
    /\ After.returns # {} /\ After.target_allocations # {}

\* The last command was a summary.
LastSummary == Len(hist) >= 1 /\ LastOp.op = "summary"

\* C15: a summary command leaves the store as it found it, the meta table
\* and the absence of the file included; pointed at a file that does not
\* exist it prints "DB not found" and nothing else; pointed at a store it
\* prints the stored schema version and the row count of each domain
\* table, and for a store without a schema_version row it prints "?" for
\* the version.
C15_SummaryReadOnly ==
    /\ LastSummary =>
          /\ After = before
          /\ ~before.exists =>
                /\ ~After.exists
                /\ printed = <<Line("DB not found:", <<LastOp.path>>)>>
          /\ before.exists =>
                /\ printed[1] = Line("Schema version:", NatDigits(SCHEMA_VERSION))
                /\ Len(printed) = 1 + Len(DomainTables(before))
                /\ \A i \in 1..Len(DomainTables(before)) :
                      printed[i + 1][2] = Thousands(Cardinality(DomainTables(before)[i]))
    /\ \A p \in Paths :
          db[p].exists =>
              _print_summary([db[p] EXCEPT !.meta = {}])[1]
                  = Line("Schema version:", <<"?">>)

\* A summary has been asked of a file that does not exist.
C15_Witness == LastSummary /\ ~before.exists /\ Len(printed) = 1

\* A summary has been asked of a store that holds rows.
C15_WitnessRows == LastSummary /\ before.exists /\ before.returns # {}

\* The value rng.gauss returns for the fund j of `assumptions` in the month
\* i of a seed call: the funds are drawn in order within each month.
RawDraw(rng_seed, i, j) ==
    LET m == monthly_params(assumptions[j].mu, assumptions[j].sigma)
    IN  gauss([seed |-> rng_seed, n |-> (i - 1) * Len(assumptions) + (j - 1)],
              m[1], m[2]).v

\* The monthly_return stored for the fund j in the month i by the only
\* seed command run on the store at "a".
StoredDraw(i, j) ==
    LET o == OpsOf(hist, "a")[1]
        dates == SeedDates(o.start_year, o.end_year, o.today)
        ids == IdByName(db["a"].funds, "fund_id")
    IN  {r.monthly_return : r \in
            {x \in db["a"].returns :
                /\ x.asof = IsoFormat(dates[i])
                /\ x.fund_id = ids[assumptions[j].name]}}

\* The months of the only seed command run on the store at "a".
SeededMonths ==
    LET o == OpsOf(hist, "a")[1]
    IN  1..Len(SeedDates(o.start_year, o.end_year, o.today))

\* C16: every monthly_return written by seed commands lies in
\* [-0.35, 0.35]; and in a store seeded once, a raw draw above 0.35 is
\* stored as 0.35, one below -0.35 as -0.35, and any other as drawn.
C16_ReturnsClipped ==
    /\ \A p \in Paths : \A r \in db[p].returns :
          r.monthly_return >= -ClipBound /\ r.monthly_return <= ClipBound
    /\ SeededOnce("a") =>
          \A i \in SeededMonths : \A j \in 1..Len(assumptions) :
              LET x == RawDraw(OpsOf(hist, "a")[1].rng_seed, i, j)
              IN  StoredDraw(i, j) =
                      {IF x > ClipBound THEN ClipBound
                       ELSE IF x < -ClipBound THEN -ClipBound ELSE x}

\* A store seeded once in which one draw was above the bound, one below it
\* and one inside it.
C16_Witness ==
    /\ SeededOnce("a")
    /\ \E i \in SeededMonths : \E j \in 1..Len(assumptions) :
          /\ RawDraw(OpsOf(hist, "a")[1].rng_seed, i, j) > ClipBound
          /\ StoredDraw(i, j) = {ClipBound}
    /\ \E i \in SeededMonths : \E j \in 1..Len(assumptions) :
          /\ RawDraw(OpsOf(hist, "a")[1].rng_seed, i, j) < -ClipBound
          /\ StoredDraw(i, j) = {-ClipBound}
    /\ \E i \in SeededMonths : \E j \in 1..Len(assumptions) :
          LET x == RawDraw(OpsOf(hist, "a")[1].rng_seed, i, j)
          IN  x > -ClipBound /\ x < ClipBound /\ x # 0 /\ StoredDraw(i, j) = {x}

\* Months counted from year 0: the order of calendar months.
MonthNo(d) == d[1] * 12 + d[2] - 1

\* The last day of the month m of the year y in the Gregorian calendar.
TrueLastDay(y, m) ==
    CASE m \in {1, 3, 5, 7, 8, 10, 12} -> 31
      [] m \in {4, 6, 9, 11} -> 30
      [] OTHER -> IF (y % 4 = 0 /\ y % 100 # 0) \/ y % 400 = 0 THEN 29 ELSE 28

\* The date x is earlier than the date y.
Earlier(x, y) ==
    \/ x[1] < y[1]
    \/ x[1] = y[1] /\ x[2] < y[2]
    \/ x[1] = y[1] /\ x[2] = y[2] /\ x[3] < y[3]

\* C17: _month_ends(start, end) yields, in strictly ascending order, one
\* date for each calendar month from start's month through end's month; each
\* is the true last day of its month, December is followed by January of
\* the next year, and nothing is yielded when start's month is after end's.
C17_MonthEnds ==
    months.called =>
        LET out == months.out
            first == MonthNo(months.start)
            last == MonthNo(months.end)
        IN  /\ Len(out) = IF first <= last THEN last - first + 1 ELSE 0
            /\ \A i \in 1..Len(out) :
                  /\ out[i][2] \in 1..12
                  /\ MonthNo(out[i]) = first + i - 1
                  /\ out[i][3] = TrueLastDay(out[i][1], out[i][2])
            /\ \A i \in 1..Len(out) - 1 :
                  /\ Earlier(out[i], out[i + 1])
                  /\ out[i][2] = 12 =>
                        out[i + 1][1] = out[i][1] + 1 /\ out[i + 1][2] = 1

\* A call whose months run over a year's end into the February of a leap
\* year.
C17_Witness ==
    /\ months.called
    /\ \E i \in 1..Len(months.out) - 2 :
          /\ months.out[i] = <<2011, 12, 31>>
          /\ months.out[i + 1] = <<2012, 1, 31>>
          /\ months.out[i + 2] = <<2012, 2, 29>>

\* A call that reaches the February of a century year that is no leap year,
\* and one of a century year that is.
C17_WitnessCentury ==
    /\ months.called
    /\ \E i \in 1..Len(months.out) :
          months.out[i] \in {<<2100, 2, 28>>, <<2000, 2, 29>>}

\* A call whose start is in a later month than its end.
C17_WitnessEmpty ==
    /\ months.called
    /\ MonthNo(months.start) > MonthNo(months.end)
    /\ months.out = <<>>

\* The only seed command run on the store at "a".
FirstSeed == OpsOf(hist, "a")[1]

\* The calendar month before the month of the day d, as (year, month).
MonthBefore(d) == IF d[2] = 1 THEN <<d[1] - 1, 12>> ELSE <<d[1], d[2] - 1>>

\* The last day of the calendar month ym.
MonthEnd(ym) == <<ym[1], ym[2], TrueLastDay(ym[1], ym[2])>>

\* The dates of the rows of a table.
AsOfs(t) == {r.asof : r \in t}

\* C18: a fresh store seeded with end_year unset holds returns and inflation
\* rows for the month-ends from January of start_year through the month
\* before the month the command ran in (December of the year before when it
\* ran in January), and for no other date: none for the running month.
C18_EndsAtLastFullMonth ==
    SeededOnce("a") /\ FirstSeed.end_year = NoYear =>
        LET last == MonthBefore(FirstSeed.today)
            want == {IsoFormat(d) :
                        d \in Range(_month_ends(<<FirstSeed.start_year, 1, 1>>,
                                                <<last[1], last[2], 1>>))}
            running == IsoFormat(MonthEnd(<<FirstSeed.today[1], FirstSeed.today[2]>>))
        IN  /\ AsOfs(db["a"].returns) = want
            /\ AsOfs(db["a"].inflation) = want
            /\ FirstSeed.start_year <= last[1] => IsoFormat(MonthEnd(last)) \in want
            /\ running \notin AsOfs(db["a"].returns)
            /\ running \notin AsOfs(db["a"].inflation)
            /\ FirstSeed.today[2] = 1 => last = <<FirstSeed.today[1] - 1, 12>>
            /\ FirstSeed.today[2] > 1 => last = <<FirstSeed.today[1], FirstSeed.today[2] - 1>>

\* A store seeded in January: its series ends with December of the year
\* before.
C18_Witness ==
    /\ SeededOnce("a") /\ FirstSeed.end_year = NoYear
    /\ FirstSeed.today = <<2010, 1, 20>>
    /\ <<"2", "0", "0", "9", "-", "1", "2", "-", "3", "1">> \in AsOfs(db["a"].returns)
    /\ <<"2", "0", "1", "0", "-", "0", "1", "-", "3", "1">> \notin AsOfs(db["a"].returns)

\* A store seeded in February: its series ends with January of that year.
C18_WitnessSameYear ==
    /\ SeededOnce("a") /\ FirstSeed.end_year = NoYear
    /\ FirstSeed.today = <<2010, 2, 14>>
    /\ <<"2", "0", "1", "0", "-", "0", "1", "-", "3", "1">> \in AsOfs(db["a"].returns)
    /\ <<"2", "0", "1", "0", "-", "0", "2", "-", "2", "8">> \notin AsOfs(db["a"].returns)

\* The six asset classes of the sample data, each with the benchmark its
\* fund is measured against.
Designated ==
    {<<Txt_US_Equity, Txt_SP_500>>,
     <<Txt_International_Equity, Txt_MSCI_ACWI_ex_US>>,
     <<Txt_Fixed_Income, Txt_Bloomberg_US_Agg>>,
     <<Txt_Real_Assets, Txt_NAREIT>>,
     <<Txt_Private_Equity, Txt_Cambridge_PE>>,
     <<Txt_Cash, Txt_T_Bill_3M>>}

\* C19: a fresh store that was seeded holds exactly 6 asset classes, 6
\* benchmarks and 6 funds, each fund pointing at the asset class of its own
\* name and at its designated benchmark, no two funds sharing either;
\* exactly one spending policy ('default', 0.045, 3); and exactly six
\* target_allocations rows, all dated 2019-06-30, one per asset class.
C19_ReferenceData ==
    SeededOnce("a") =>
        LET s == db["a"]
        IN  /\ Cardinality(s.asset_classes) = 6
            /\ Cardinality(s.benchmarks) = 6
            /\ Cardinality(s.funds) = 6
            /\ {r.name : r \in s.asset_classes} = {x[1] : x \in Designated}
            /\ {r.name : r \in s.benchmarks} = {x[2] : x \in Designated}
            /\ \A f \in s.funds :
                  \E a \in s.asset_classes, b \in s.benchmarks :
                      /\ a.asset_class_id = f.asset_class_id
                      /\ a.name = f.name
                      /\ b.benchmark_id = f.benchmark_id
                      /\ <<f.name, b.name>> \in Designated
            /\ Cardinality({f.asset_class_id : f \in s.funds}) = 6
            /\ Cardinality({f.benchmark_id : f \in s.funds}) = 6
            /\ Cardinality(s.spending_policy) = 1
            /\ \A r \in s.spending_policy :
                  /\ r.name = <<"d", "e", "f", "a", "u", "l", "t">>
                  /\ r.rate * 1000 = 45 * Scale
                  /\ r.smoothing_years = 3
            /\ Cardinality(s.target_allocations) = 6
            /\ \A r \in s.target_allocations :
                  r.asof = <<"2", "0", "1", "9", "-", "0", "6", "-", "3", "0">>
            /\ {r.asset_class_id : r \in s.target_allocations}
                  = {a.asset_class_id : a \in s.asset_classes}

\* A fresh store after its seed command, reference rows and series in it.
C19_Witness ==
    /\ SeededOnce("a")
    /\ db["a"].funds # {}
    /\ db["a"].spending_policy # {}
    /\ db["a"].target_allocations # {}
    /\ db["a"].returns # {}

\* The target_allocations rows of the store s dated 2019-06-30 for the six
\* asset classes of the sample data.
Snapshot(s) ==
    {r \in s.target_allocations :
        /\ r.asof = <<"2", "0", "1", "9", "-", "0", "6", "-", "3", "0">>
        /\ \E a \in s.asset_classes :
              /\ a.asset_class_id = r.asset_class_id
              /\ a.name \in {x[1] : x \in Designated}}

\* SELECT SUM(weight) over a set of rows.
RECURSIVE SumWeights(_)
SumWeights(rows) ==
    IF rows = {} THEN 0
    ELSE LET r == CHOOSE x \in rows : TRUE
         IN  r.weight + SumWeights(rows \ {r})

\* A seed command has run on the store at p and returned.
Seeded(p) == \E i \in 1..Len(hist) :
    hist[i].path = p /\ hist[i].op = "seed" /\ hist[i].ok

C20_WitnessReseeded ==
    /\ Reseeded
    /\ Cardinality(Snapshot(db[LastOp.path])) = 6

\* The last command was a seed that returned without raising.
SeededOk == Len(hist) >= 1 /\ LastOp.op = "seed" /\ LastOp.ok

\* The tables seed_sample_data fills insert-if-absent.
ReferenceTables ==
    {"asset_classes", "benchmarks", "funds", "spending_policy",
     "target_allocations"}

\* The name of the asset class with the id i in the store s.
ClassName(s, i) == (CHOOSE a \in s.asset_classes : a.asset_class_id = i).name

\* The rows of the table t of the store s that carry the natural key of a
\* row the seed writes.
SeedKeyed(s, t) ==
    CASE t = "asset_classes" -> {r \in s[t] : r.name \in Range(assets)}
      [] t = "benchmarks" ->
            {r \in s[t] : r.name \in {benchmarks[i].name : i \in DOMAIN benchmarks}}
      [] t = "funds" -> {r \in s[t] : r.name \in {funds[i].name : i \in DOMAIN funds}}
      [] t = "spending_policy" -> {r \in s[t] : r.name = Txt_default}
      [] t = "target_allocations" ->
            {r \in s[t] : /\ r.asof = alloc_date
                          /\ ClassName(s, r.asset_class_id) \in Range(assets)}

\* C21: a seed leaves every row that the store already held in
\* asset_classes, benchmarks, funds, spending_policy and target_allocations
\* as it was (id, references, ticker, weight, rate and smoothing), and adds
\* no second row under the natural key of a row that was there.
C21_SeedInsertsIfAbsent ==
    SeededOk =>
        \A t \in ReferenceTables :
            /\ before[t] \subseteq After[t]
            /\ \A r \in SeedKeyed(before, t) :
                  \A x \in After[t] \ before[t] :
                      Conflicts({r}, x, UniqueKeys[t]) = {}

\* A seed of a store that held, under seeded keys, an asset class, a
\* benchmark with a ticker, a fund in another asset class, a weight and a
\* policy with another rate: all still there, next to rows the seed added.
C21_Witness ==
    /\ SeededOk
    /\ \A t \in ReferenceTables : SeedKeyed(before, t) # {}
    /\ \E f \in SeedKeyed(before, "funds") : f \in After.funds
          /\ ClassName(After, f.asset_class_id) # f.name
    /\ \E r \in After.spending_policy : r.name = Txt_default /\ r.rate # 45
    /\ \E b \in After.benchmarks : b.name = Txt_T_Bill_3M /\ b.ticker = Txt_abc
    /\ \E r \in SeedKeyed(After, "target_allocations") : r.weight = 250
    /\ Cardinality(After.funds) > Cardinality(before.funds)

\* The last two commands imported the same workbook into the same store.
Reimported ==
    /\ Len(hist) >= 2
    /\ LastOp.op = "import"
    /\ hist[Len(hist) - 1].op = "import"
    /\ hist[Len(hist) - 1].path = LastOp.path
    /\ hist[Len(hist) - 1].wb = LastOp.wb

\* The (key, value) content of target_allocations rows: the rowid left out.
Weights(t) ==
    {[asof |-> r.asof, asset_class_id |-> r.asset_class_id, weight |-> r.weight] :
        r \in t}

\* C22: importing a workbook a second time leaves returns,
\* target_allocations and inflation with the same (key, value) rows and the
\* same row counts as the first import left, and asset_classes, benchmarks
\* and funds unchanged.
C22_ReimportIdempotent ==
    Reimported =>
        /\ After.returns = before.returns
        /\ Weights(After.target_allocations) = Weights(before.target_allocations)
        /\ Cardinality(After.target_allocations)
              = Cardinality(before.target_allocations)
        /\ After.inflation = before.inflation
        /\ After.asset_classes = before.asset_classes
        /\ After.benchmarks = before.benchmarks
        /\ After.funds = before.funds

\* A second import that returned and wrote its keyed rows again: the
\* allocations carry new rowids, the three series are not empty.
C22_Witness ==
    /\ Reimported /\ LastOp.ok
    /\ After.returns # {} /\ After.inflation # {}
    /\ After.target_allocations # {}
    /\ After.target_allocations # before.target_allocations
    /\ After.funds # {}

\* A contributions row is valid: it has a date, and its amount is a float or
\* text that reads as one.
ValidContribution(r) ==
    /\ ~IsNa(Get(r, "asof", None)) /\ ~IsEmptyStr(Get(r, "asof", None))
    /\ \/ Get(r, "amount", None).t = "num"
       \/ Get(r, "amount", None).t = "str" /\ IsNumberText(Get(r, "amount", None).s)

\* The amount a valid contributions row gives, in units of 1/Scale.
AmountGiven(r) ==
    IF r.amount.t = "num" THEN r.amount.n ELSE PyFloatOfText(r.amount.s).v

\* The valid rows of the contributions sheet of the last workbook.
ValidRows == SelectSeq(LastSheet("contributions"), ValidContribution)

\* The largest contribution_id of the store s, 0 in an empty table.
LastContribution(s) == NextRowid(s.contributions, "contribution_id") - 1

\* C23: an import that returns adds one contributions row for each valid
\* row of its sheet, in the sheet's order, with the date and the amount as
\* given (no division by 100), and removes or changes none that was there:
\* the count grows by the number of valid rows, also when the same sheet is
\* imported again.
C23_ContributionsAppend ==
    ImportedOk =>
        /\ before.contributions \subseteq After.contributions
        /\ Cardinality(After.contributions)
              = Cardinality(before.contributions) + Len(ValidRows)
        /\ \A j \in 1..Len(ValidRows) :
              \E r \in After.contributions \ before.contributions :
                  /\ r.contribution_id = LastContribution(before) + j
                  /\ r.asof = parse_date(ValidRows[j].asof)
                  /\ r.amount = AmountGiven(ValidRows[j])

\* The ledger imported a second time: its four valid rows are there twice,
\* an amount of 50 stored as 50.
C23_Witness ==
    /\ Reimported /\ LastOp.ok /\ Len(ValidRows) = 4
    /\ Len(ValidRows) < Len(LastSheet("contributions"))
    /\ Cardinality(before.contributions) = 4
    /\ Cardinality(After.contributions) = 8
    /\ Cardinality({r \in After.contributions : r.amount = 50 * Scale}) = 6

\* The draws of the only seed command run on the store at "a".
FirstSeedDraws ==
    SeedDraws(SeedDates(FirstSeed.start_year, FirstSeed.end_year, FirstSeed.today),
              FirstSeed.rng_seed, IdByName(db["a"].funds, "fund_id"))

\* The month-ends of that command as text, in calendar order.
FirstSeedMonths ==
    LET dates == SeedDates(FirstSeed.start_year, FirstSeed.end_year, FirstSeed.today)
    IN  [i \in 1..Len(dates) |-> IsoFormat(dates[i])]

\* The place of the month-end asof in the series generated.
MonthIndex(asof) == CHOOSE i \in DOMAIN FirstSeedMonths : FirstSeedMonths[i] = asof

\* The stream is consumed as the draws are listed: the generator that
\* starts at the head of the stream and is advanced once per draw yields the
\* values stored, the inflation draws starting where the return draws end.
C24_DrawsAreTheStoredOnes ==
    SeededOnce("a") =>
        LET dates == SeedDates(FirstSeed.start_year, FirstSeed.end_year, FirstSeed.today)
            n == Len(FirstSeedDraws) - Len(dates)
        IN  /\ n = Len(dates) * Len(assumptions)
            /\ Range(CpiRows(dates, 100 * Scale,
                             [seed |-> FirstSeed.rng_seed, n |-> n]))
                  = db["a"].inflation

\* C24: within one seed call every draw made for a month-end, its six
\* return draws in the order of the funds and its inflation draw, comes
\* before every draw made for a later month-end.
C24_DrawsMonthByMonth ==
    SeededOnce("a") =>
        /\ \A x, y \in DOMAIN FirstSeedDraws :
              MonthIndex(FirstSeedDraws[x].asof) < MonthIndex(FirstSeedDraws[y].asof)
                  => x < y
        /\ \A x, y \in DOMAIN FirstSeedDraws :
              /\ FirstSeedDraws[x].asof = FirstSeedDraws[y].asof
              /\ FirstSeedDraws[x].series = "returns"
              /\ FirstSeedDraws[y].series = "returns"
              /\ FirstSeedDraws[x].fund_id < FirstSeedDraws[y].fund_id
              => x < y

\* The command in progress has ended, by returning or by an exception.
Ended == run.pc \in {"returned", "failed"}

\* The connections a command that has ended should have used: none for a
\* summary of a missing file; two, one after the other, for a seed or an
\* import-xlsx of a missing file once init_db has returned; one otherwise.
ConnectionsOf(r) ==
    IF r.cmd = "summary" /\ ~r.found THEN 0
    ELSE IF r.cmd \in {"seed", "import-xlsx"} /\ ~r.found
         THEN (IF r.raised /\ r.opened = 1 THEN 1 ELSE 2)
    ELSE 1

\* C25 as stated: a command that has opened the store has used one
\* connection, and it is closed when the command returns or fails.
C25_OneConnectionClosed ==
    Ended /\ run.opened >= 1 => run.open = 0 /\ run.opened = 1

\* C25: no command holds two connections at once, and none is open when
\* the command returns or fails, whichever call raised; init and summary
\* use one connection, seed and import-xlsx one, or two in succession when
\* the file was missing (init_db's, closed, then their own).
C25_ConnectionsClosed ==
    /\ run.open \in {0, 1}
    /\ Ended => run.open = 0 /\ run.opened = ConnectionsOf(run)
    /\ run.pc = "idle" => run.open = 0

\* A seed or import of a missing file whose body raised: two connections
\* were opened and both are closed.
C25_Witness ==
    /\ run.pc = "failed" /\ run.raised
    /\ run.cmd \in {"seed", "import-xlsx"}
    /\ run.opened = 2 /\ run.open = 0

\* A summary that raised with its one connection closed.
C25_WitnessSummary ==
    /\ run.pc = "failed" /\ run.cmd = "summary" /\ run.opened = 1 /\ run.open = 0

\* The three tables of reference entities, each with its id column.
EntityTables == {"asset_classes", "benchmarks", "funds"}

\* The (id, name) pairs of the table t of the store s.
Entities(s, t) == {<<r[IdCol[t]], r.name>> : r \in s[t]}

\* C26: over every step of init, seed, summary and import commands, each
\* asset class, benchmark and fund of a store is still there afterwards with
\* the same id and the same name, so the three tables never shrink.
C26_EntitiesKept ==
    [][\A p \in Paths : \A t \in EntityTables :
          /\ Entities(db[p], t) \subseteq Entities(db'[p], t)
          /\ db[p][t] \subseteq db'[p][t]
          /\ Cardinality(db[p][t]) <= Cardinality(db'[p][t])]_vars

\* A second command that found funds, benchmarks and asset classes in the
\* store and added to each.
C26_Witness ==
    /\ Len(hist) = 2
    /\ \A t \in EntityTables :
          /\ before[t] # {}
          /\ Entities(before, t) \subseteq Entities(After, t)
          /\ Cardinality(After[t]) > Cardinality(before[t])

\* A command that raised after it had created entities: none of them stays,
\* none that was there is lost.
C26_WitnessRaised ==
    /\ Len(hist) = 2 /\ ~LastOp.ok
    /\ before.funds # {}
    /\ After.funds = before.funds

\* The cell is empty: not there, NaN or ''.
IsBlank(x) == IsNa(x) \/ IsEmptyStr(x)

\* A funds row that names a fund and an asset class and leaves the
\* benchmark out: the cell is empty or the sheet has no such column.
FundWithoutBenchmark(r) ==
    /\ NameGiven(r)
    /\ ~IsBlank(Get(r, "asset_class", None))
    /\ IsBlank(Get(r, "benchmark", None))

\* The benchmark names the last workbook gives: the name cells of its
\* benchmarks sheet and the benchmark cells of its funds sheet that are
\* not empty.
BenchmarksGiven ==
    {NameOf(LastSheet("benchmarks")[i], "name") : i \in RowsOf("benchmarks")}
    \cup {NameOf(LastSheet("funds")[i], "benchmark") :
            i \in {j \in RowsOf("funds") :
                      ~IsBlank(Get(LastSheet("funds")[j], "benchmark", None))}}

\* C27: an import stores a new fund whose funds row leaves the benchmark
\* out (empty cell, or no benchmark column) with benchmark_id NULL, and
\* creates no benchmark for it: every benchmark of the store was there
\* before or is named in the workbook.
C27_BenchmarkOptional ==
    ImportedOk =>
        /\ \A i \in RowsOf("funds") :
              LET r == LastSheet("funds")[i]
              IN  /\ FundWithoutBenchmark(r)
                  /\ NameOf(r, "name") \notin {f.name : f \in before.funds}
                  /\ \A j \in 1..(i - 1) :
                        NameOf(LastSheet("funds")[j], "name") # NameOf(r, "name")
                  => \E f \in After.funds :
                        f.name = NameOf(r, "name") /\ f.benchmark_id = NullId
        /\ (\E i \in RowsOf("funds") : FundWithoutBenchmark(LastSheet("funds")[i]))
              => {b.name : b \in After.benchmarks}
                    \subseteq {b.name : b \in before.benchmarks} \cup BenchmarksGiven

\* The part that holds: a funds sheet without a benchmark column gives
\* funds without a benchmark and no benchmark row.
C27_NoColumn ==
    ImportedOk /\ (\A i \in RowsOf("funds") : "benchmark" \notin DOMAIN LastSheet("funds")[i])
        => /\ \A i \in RowsOf("funds") :
                 LET r == LastSheet("funds")[i]
                 IN  NameGiven(r) /\ NameOf(r, "name") \notin {f.name : f \in before.funds}
                     => \E f \in After.funds :
                           f.name = NameOf(r, "name") /\ f.benchmark_id = NullId
           /\ After.benchmarks = before.benchmarks

\* C28: in every store that seed and import commands have reached, in
\* whatever order, the spending_policy table holds at most one row.
C28_PolicySingleton ==
    \A p \in Paths : Cardinality(db[p].spending_policy) <= 1

\* What does hold: a command that finds at most one policy leaves at most
\* one, unless it is a seed that finds a policy with another name than
\* 'default'.
C28_SingletonUnlessSeededOver ==
    Len(hist) >= 1 =>
        (/\ Cardinality(before.spending_policy) <= 1
         /\ ~(LastOp.op = "seed" /\ \E r \in before.spending_policy : r.name # Txt_default)
         => Cardinality(After.spending_policy) <= 1)

\* The fund a returns row names is a fund of the store the import left:
\* no fund is created once the funds sheet has been processed.
KnownFundRow(r) == NameOf(r, "fund") \in {f.name : f \in After.funds}

\* The workbook without the returns rows that name an unknown fund.
WithoutUnknownFunds(wb) ==
    [sh \in DOMAIN wb |->
        IF sh = "returns" THEN SelectSeq(wb[sh], KnownFundRow) ELSE wb[sh]]

\* The fund, by name, of the returns row x of the store s.
FundName(s, x) == (CHOOSE f \in s.funds : f.fund_id = x.fund_id).name

\* C29: an import drops the returns rows whose fund is not a fund of the
\* store once the funds sheet has been processed: it leaves the store as the
\* import of the workbook without those rows does (so the other rows are
\* written, and nothing is written or created for the dropped ones), and no
\* asset class carries the name of such a fund unless it was there before or
\* the workbook names it as an asset class.
C29_UnknownFundDropped ==
    ImportedOk =>
        /\ After = Imported(before, WithoutUnknownFunds(LastWb))
        /\ \A i \in RowsOf("returns") :
              ~KnownFundRow(LastSheet("returns")[i]) =>
                  \A a \in After.asset_classes \ before.asset_classes :
                      a.name = NameOf(LastSheet("returns")[i], "fund") =>
                          \E sh \in {"asset_classes", "funds", "target_allocations"} :
                              \E j \in RowsOf(sh) :
                                  a.name \in {NameOf(LastSheet(sh)[j], "name"),
                                              NameOf(LastSheet(sh)[j], "asset_class")}

\* An import with a returns row for an unknown fund, complete otherwise,
\* followed in its sheet by a row of a known fund that was written.
C29_Witness ==
    /\ ImportedOk
    /\ \E i, j \in RowsOf("returns") :
          /\ i < j
          /\ ~KnownFundRow(LastSheet("returns")[i])
          /\ ~IsBlank(Get(LastSheet("returns")[i], "asof", None))
          /\ IsNumber(Get(LastSheet("returns")[i], "monthly_return", None))
          /\ KnownFundRow(LastSheet("returns")[j])
          /\ \E x \in After.returns \ before.returns :
                /\ x.asof = parse_date(LastSheet("returns")[j].asof)
                /\ FundName(After, x) = NameOf(LastSheet("returns")[j], "fund")

\* The last command raised.
Raised == Len(hist) >= 1 /\ ~LastOp.ok

\* What the last command, an import, had written when it stopped.
ImportTx == import_from_excel(ensure_schema(before), LastWb)

\* C30: a seed or import command that raises partway leaves every domain
\* table as it found it, whatever it had written before it raised; and the
\* domain tables change only under a seed or an import that returned.
C30_AllOrNothing ==
    Len(hist) >= 1 =>
        /\ ~LastOp.ok => DomainTables(After) = DomainTables(before)
        /\ DomainTables(After) # DomainTables(before)
              => LastOp.ok /\ LastOp.op \in {"seed", "import"}

\* An import that raised on a later sheet after it had written funds and
\* returns and had created an asset class: none of them is in the store.
C30_Witness ==
    /\ Raised /\ LastOp.op = "import"
    /\ ImportTx.err
    /\ ImportTx.s.asset_classes # before.asset_classes
    /\ ImportTx.s.funds # before.funds
    /\ ImportTx.s.returns # before.returns
    /\ DomainTables(After) = DomainTables(before)

\* A seed that raised after it had inserted asset classes and benchmarks.
C30_WitnessSeed ==
    /\ Raised /\ LastOp.op = "seed"
    /\ SeedInterrupted(ensure_schema(before)).s.asset_classes # before.asset_classes
    /\ After.asset_classes = before.asset_classes
    /\ After.benchmarks = before.benchmarks

====
